---- MODULE Spec2Model ----
(***************************************************************************)
(* Verification model of ai-todo-manager.                                  *)
(*                                                                         *)
(*   Part 1  the derivation pipeline of HomePage (src/app/page.tsx,        *)
(*           filteredTodos) and the status badge of TodoCard.              *)
(*   Part 2  postprocessResult of the generate-todo route                  *)
(*           (src/unnamed/part_001).                                       *)
(*   Part 3  the POST handlers of the generate-todo route                  *)
(*           (src/unnamed/part_001) and of the analyze-todos route         *)
(*           (src/app/api/analyze-todos/route.ts), with the filter of its  *)
(*           todo query and the statistics it computes from the rows.      *)
(*   Part 4  the handlers of HomePage (src/app/page.tsx) and of TodoForm   *)
(*           (src/components/todo/TodoForm.tsx) with the todos table and   *)
(*           the requests in flight.                                       *)
(*                                                                         *)
(* Text is modelled as a sequence of one-character strings, so that        *)
(* length, substring, case folding and collation are computed.  Korean     *)
(* literals of the source are written in ASCII:                            *)
(*   "done" = wanryo, "in_progress" = jinhaeng jung, "overdue" = jiyeon,   *)
(*   <<"hal", " ", "il">> = the three-character placeholder title,         *)
(*   <<"gi", "ta">> = the two-character fallback category.                 *)
(***************************************************************************)
EXTENDS Integers, Sequences, FiniteSets, TLC

VARIABLES
    todos,           \* page.tsx: const [todos, setTodos]
    searchQuery,     \* page.tsx: const [searchQuery, setSearchQuery]
    filterStatus,    \* page.tsx: const [filterStatus, setFilterStatus]
    filterPriority,  \* page.tsx: const [filterPriority, setFilterPriority]
    sortOption,      \* page.tsx: const [sortOption, setSortOption]
    filteredTodos,   \* page.tsx: the value held by the useMemo
    now,             \* the wall clock, what new Date() returns, in hours
    derivedAt,       \* the clock value at which the memo last ran
    rawData,         \* part_001 POST: result.object, the output of the model
    currentDate,     \* part_001 POST: const currentDate
    timezoneOffset,  \* hours the local time of the server is ahead of UTC
    processedData,   \* part_001 POST: const processedData, NULL before the call
    req,             \* the request a POST handler received and its environment
    handler,         \* the position and the locals of the POST handler
    user,            \* page.tsx: const { user } = useAuth(), the id of the user
    store,           \* the todos table: its rows and the next id it hands out
    inflight,        \* the calls of handlers that wait for an answer
    todosLoading,    \* page.tsx: const [todosLoading, setTodosLoading]
    error,           \* page.tsx: const [error, setError]
    editingTodo,     \* page.tsx: const [editingTodo, setEditingTodo]
    analysisLoading, \* page.tsx: const [analysisLoading, setAnalysisLoading]
    analysisData,    \* page.tsx: const [analysisData, setAnalysisData]
    analysisError,   \* page.tsx: const [analysisError, setAnalysisError]
    isGenerating,    \* TodoForm.tsx: const [isGenerating, setIsGenerating]
    pathname,        \* the route the browser shows: "/" or "/login"
    history          \* what has happened so far: calls, dialogs, requests

pageVars == <<todos, searchQuery, filterStatus, filterPriority, sortOption,
              filteredTodos, now, derivedAt>>

routeVars == <<rawData, currentDate, timezoneOffset, processedData>>

apiVars == <<req, handler>>

clientVars == <<user, store, inflight, todosLoading, error, editingTodo,
                analysisLoading, analysisData, analysisError, isGenerating,
                pathname, history>>

\* everything the page derivation does not touch
nonPageVars == <<routeVars, apiVars, clientVars>>

vars == <<pageVars, routeVars, apiVars, clientVars>>

\* An optional field is a sequence of at most one value: NULL is the absent
\* value (null or undefined of the source), Some(v) a present value v
NULL == <<>>
Some(v) == <<v>>
Val(x) == x[1]

\* the handlers of the client are not part of the run: their state stays at rest
ClientAtRest ==
    /\ user = NULL
    /\ store = [rows |-> {}, nextId |-> 1]
    /\ inflight = <<>>
    /\ todosLoading = FALSE
    /\ error = NULL
    /\ editingTodo = NULL
    /\ analysisLoading = [p \in {"today", "week"} |-> FALSE]
    /\ analysisData = [p \in {"today", "week"} |-> NULL]
    /\ analysisError = [p \in {"today", "week"} |-> NULL]
    /\ isGenerating = FALSE
    /\ pathname = "/"
    /\ history = [calls |-> 0, accepted |-> 0, declined |-> 0, deletes |-> 0,
                  selects |-> 0, failures |-> 0, logins |-> 0]

-----------------------------------------------------------------------------
(* Bounds *)

\* longest todo list held by the page
MaxTodos == 3

\* last clock value (hours since the epoch of the model)
MaxNow == 25

\* how many characters a raw title or description can exceed its maximum
MaxOverrun == 1

\* last calendar day of a raw due_date; the reference today is day 2 or later
MaxDay == 3

-----------------------------------------------------------------------------
(* Text *)

\* String.prototype.toLowerCase on one character
LowerChar(c) ==
    CASE c = "A" -> "a"
      [] c = "B" -> "b"
      [] OTHER -> c

\* String.prototype.toLowerCase
toLowerCase(s) == [i \in 1..Len(s) |-> LowerChar(s[i])]

\* String.prototype.includes
includes(s, q) ==
    \E i \in 0..(Len(s) - Len(q)) : SubSeq(s, i + 1, i + Len(q)) = q

\* lexicographic comparison of two sequences of integers: -1, 0 or 1
RECURSIVE LexCompare(_, _)
LexCompare(s, t) ==
    IF s = <<>> /\ t = <<>> THEN 0
    ELSE IF s = <<>> THEN -1
    ELSE IF t = <<>> THEN 1
    ELSE IF Head(s) < Head(t) THEN -1
    ELSE IF Head(s) > Head(t) THEN 1
    ELSE LexCompare(Tail(s), Tail(t))

\* collation weights of the letters used here: the primary weight is the
\* letter, the tertiary weight puts lower case before upper case
PrimaryWeight(c) == IF LowerChar(c) = "a" THEN 1 ELSE 2
TertiaryWeight(c) == IF LowerChar(c) = c THEN 0 ELSE 1

\* String.prototype.localeCompare(other, "ko"): primary weights of the whole
\* strings first, tertiary weights only between primary-equal strings
localeCompare(s, t) ==
    LET p == LexCompare([i \in 1..Len(s) |-> PrimaryWeight(s[i])],
                        [i \in 1..Len(t) |-> PrimaryWeight(t[i])])
    IN  IF p # 0 THEN p
        ELSE LexCompare([i \in 1..Len(s) |-> TertiaryWeight(s[i])],
                        [i \in 1..Len(t) |-> TertiaryWeight(t[i])])

-----------------------------------------------------------------------------
(* Time *)

\* a timestamp string as the store returns it: day and hour of the day
Ts(d, h) == [day |-> d, hour |-> h]

\* new Date(timestampString).getTime(), in hours
getTime(ts) == ts.day * 24 + ts.hour

-----------------------------------------------------------------------------
(* Todo records *)

Todo(id, title, description, due_date, priority, completed) ==
    [id |-> id, title |-> title, description |-> description,
     created_date |-> Ts(0, id), due_date |-> due_date,
     priority |-> priority, completed |-> completed]

\* the records the store can hold; a larger id was created later
TodoPool ==
    { Todo(1,  <<"a">>,      NULL,               NULL,           NULL,           FALSE),
      Todo(2,  <<"B">>,      Some(<<"a">>),      Some(Ts(1, 0)), Some("high"),   FALSE),
      Todo(3,  <<"A", "b">>, NULL,               Some(Ts(1, 1)), Some("medium"), FALSE),
      Todo(4,  <<"a">>,      Some(<<"B">>),      NULL,           Some("low"),    TRUE),
      Todo(5,  <<"b">>,      NULL,               Some(Ts(1, 0)), NULL,           TRUE),
      Todo(6,  <<"A">>,      Some(<<>>),         Some(Ts(1, 1)), Some("high"),   TRUE),
      Todo(7,  <<"b", "a">>, NULL,               NULL,           Some("medium"), FALSE),
      Todo(8,  <<"B">>,      Some(<<"A", "b">>), Some(Ts(1, 0)), Some("low"),    FALSE),
      Todo(9,  <<"a">>,      NULL,               Some(Ts(1, 1)), NULL,           FALSE),
      Todo(10, <<"A", "B">>, Some(<<"b">>),      NULL,           Some("high"),   TRUE) }

SearchQueries == { <<>>, <<"a">>, <<"A", "b">> }
FilterStatuses == { "all", "in_progress", "done", "overdue" }
FilterPriorities == { "all", "high", "medium", "low" }
SortOptions == { "priority", "due_date", "created_date", "title" }

\* the rows of a set of records in the order of
\* .order("created_date", { ascending: false })
RECURSIVE OrderByCreatedDesc(_)
OrderByCreatedDesc(S) ==
    IF S = {} THEN <<>>
    ELSE LET newest == CHOOSE t \in S :
                 \A u \in S : getTime(u.created_date) <= getTime(t.created_date)
         IN  <<newest>> \o OrderByCreatedDesc(S \ {newest})

\* every list fetchTodos can store in todos
StoreLists ==
    { OrderByCreatedDesc(S) : S \in { X \in SUBSET TodoPool : Cardinality(X) <= MaxTodos } }

-----------------------------------------------------------------------------
(* Arrays: an array value together with the identity of the array object,  *)
(* "todos" for the array held in the todos state, "copy" for a new array   *)

\* variant: the memo works on the todos array itself (let result = todos)
SpreadCopy_Alias(items) == [ref |-> "todos", items |-> items]

\* [...todos]
SpreadCopy(items) == [ref |-> "copy", items |-> items]

\* the array Array.prototype.filter returns: always a new array object,
\* holding the items that passed the test
FilteredArray(passed) == [ref |-> "copy", items |-> passed]

-----------------------------------------------------------------------------
(* filteredTodos *)

\* search filter callback
MatchesSearch(todo, query) ==
    \/ includes(toLowerCase(todo.title), query)
    \/ /\ todo.description # NULL
       /\ includes(toLowerCase(Val(todo.description)), query)

\* variant: a record due exactly now is no longer in progress (> for >=)
MatchesStatus_Strict(todo, status, t) ==
    CASE status = "done" -> todo.completed
      [] status = "in_progress" ->
            /\ ~todo.completed
            /\ (todo.due_date = NULL \/ getTime(Val(todo.due_date)) > t)
      [] status = "overdue" ->
            /\ ~todo.completed
            /\ todo.due_date # NULL
            /\ getTime(Val(todo.due_date)) < t
      [] OTHER -> TRUE

\* status filter callback
MatchesStatus(todo, status, t) ==
    CASE status = "done" -> todo.completed
      [] status = "in_progress" ->
            /\ ~todo.completed
            /\ (todo.due_date = NULL \/ getTime(Val(todo.due_date)) >= t)
      [] status = "overdue" ->
            /\ ~todo.completed
            /\ todo.due_date # NULL
            /\ getTime(Val(todo.due_date)) < t
      [] OTHER -> TRUE

\* variant: the filter defaults an absent priority to low, as the sort does
MatchesPriority_AbsentAsLow(todo, priority) ==
    (IF todo.priority = NULL THEN "low" ELSE Val(todo.priority)) = priority

\* priority filter callback
MatchesPriority(todo, priority) == todo.priority = Some(priority)

\* const priorityOrder = { high: 3, medium: 2, low: 1 }
priorityOrder(p) ==
    CASE p = "high" -> 3
      [] p = "medium" -> 2
      [] p = "low" -> 1

\* variant: a.priority || "medium"
PriorityOrLow_Medium(todo) == IF todo.priority = NULL THEN "medium" ELSE Val(todo.priority)

\* a.priority || "low"
PriorityOrLow(todo) == IF todo.priority = NULL THEN "low" ELSE Val(todo.priority)

\* variant: the due-date branch returns -1 for an undated a and 1 for an
\* undated b
compareTodos_UndatedFirst(a, b, option) ==
    CASE option = "priority" ->
            priorityOrder(PriorityOrLow(b)) - priorityOrder(PriorityOrLow(a))
      [] option = "due_date" ->
            IF a.due_date = NULL /\ b.due_date = NULL THEN 0
            ELSE IF a.due_date = NULL THEN -1
            ELSE IF b.due_date = NULL THEN 1
            ELSE getTime(Val(a.due_date)) - getTime(Val(b.due_date))
      [] option = "created_date" ->
            getTime(b.created_date) - getTime(a.created_date)
      [] option = "title" -> localeCompare(a.title, b.title)
      [] OTHER -> 0

\* the comparator handed to result.sort
compareTodos(a, b, option) ==
    CASE option = "priority" ->
            priorityOrder(PriorityOrLow(b)) - priorityOrder(PriorityOrLow(a))
      [] option = "due_date" ->
            IF a.due_date = NULL /\ b.due_date = NULL THEN 0
            ELSE IF a.due_date = NULL THEN 1
            ELSE IF b.due_date = NULL THEN -1
            ELSE getTime(Val(a.due_date)) - getTime(Val(b.due_date))
      [] option = "created_date" ->
            getTime(b.created_date) - getTime(a.created_date)
      [] option = "title" -> localeCompare(a.title, b.title)
      [] OTHER -> 0

\* variant: an unstable sort, an element is inserted in front of the elements
\* it ties with
RECURSIVE SortItems_Unstable(_, _)
SortItems_Unstable(items, option) ==
    IF Len(items) <= 1 THEN items
    ELSE LET front == SortItems_Unstable(SubSeq(items, 1, Len(items) - 1), option)
             x == items[Len(items)]
             less == { j \in 1..Len(front) : compareTodos(front[j], x, option) < 0 }
             k == IF less = {} THEN 0
                  ELSE CHOOSE j \in less : \A i \in less : i <= j
         IN  SubSeq(front, 1, k) \o <<x>> \o SubSeq(front, k + 1, Len(front))

\* Array.prototype.sort on the items: a stable sort by the comparator.  Each
\* element is inserted behind the last element that does not compare greater.
RECURSIVE SortItems(_, _)
SortItems(items, option) ==
    IF Len(items) <= 1 THEN items
    ELSE LET front == SortItems(SubSeq(items, 1, Len(items) - 1), option)
             x == items[Len(items)]
             notGreater == { j \in 1..Len(front) : compareTodos(front[j], x, option) <= 0 }
             k == IF notGreater = {} THEN 0
                  ELSE CHOOSE j \in notGreater : \A i \in notGreater : i <= j
         IN  SubSeq(front, 1, k) \o <<x>> \o SubSeq(front, k + 1, Len(front))

\* result.sort(...): sorts the array object in place
ArraySort(arr, option) == [arr EXCEPT !.items = SortItems(arr.items, option)]

\* the body of the useMemo, run at clock value t on the array object held in
\* todos; the result is the array object the memo returns
filteredTodosMemo(list, query, status, priority, option, t) ==
    LET result0 == SpreadCopy(list)
        SearchTest(todo) == MatchesSearch(todo, toLowerCase(query))
        result1 == IF query # <<>> THEN FilteredArray(SelectSeq(result0.items, SearchTest))
                   ELSE result0
        StatusTest(todo) == MatchesStatus(todo, status, t)
        result2 == IF status # "all" THEN FilteredArray(SelectSeq(result1.items, StatusTest))
                   ELSE result1
        PriorityTest(todo) == MatchesPriority(todo, priority)
        result3 == IF priority # "all" THEN FilteredArray(SelectSeq(result2.items, PriorityTest))
                   ELSE result2
    IN  ArraySort(result3, option)

\* the todos array after the memo ran: changed only when the memo sorted the
\* very array object held in todos
TodosAfterMemo(list, memo) == IF memo.ref = "todos" THEN memo.items ELSE list

getTodoStatus_DueNowOverdue(todo, t) ==
    IF todo.completed THEN "done"
    ELSE IF todo.due_date # NULL /\ getTime(Val(todo.due_date)) <= t THEN "overdue"
    ELSE "in_progress"

\* getTodoStatus of TodoCard
getTodoStatus(todo, t) ==
    IF todo.completed THEN "done"
    ELSE IF todo.due_date # NULL /\ getTime(Val(todo.due_date)) < t THEN "overdue"
    ELSE "in_progress"

-----------------------------------------------------------------------------
(* The page: state changes that re-run the memo *)

Render(query, status, priority, option) ==
    LET memo == filteredTodosMemo(todos, query, status, priority, option, now)
    IN  /\ filteredTodos' = memo.items
        /\ todos' = TodosAfterMemo(todos, memo)
        /\ derivedAt' = now

SetSearchQuery ==
    \E q \in SearchQueries :
        /\ q # searchQuery
        /\ searchQuery' = q
        /\ Render(q, filterStatus, filterPriority, sortOption)
        /\ UNCHANGED <<filterStatus, filterPriority, sortOption, now, nonPageVars>>

SetFilterStatus ==
    \E s \in FilterStatuses :
        /\ s # filterStatus
        /\ filterStatus' = s
        /\ Render(searchQuery, s, filterPriority, sortOption)
        /\ UNCHANGED <<searchQuery, filterPriority, sortOption, now, nonPageVars>>

SetFilterPriority ==
    \E p \in FilterPriorities :
        /\ p # filterPriority
        /\ filterPriority' = p
        /\ Render(searchQuery, filterStatus, p, sortOption)
        /\ UNCHANGED <<searchQuery, filterStatus, sortOption, now, nonPageVars>>

SetSortOption ==
    \E o \in SortOptions :
        /\ o # sortOption
        /\ sortOption' = o
        /\ Render(searchQuery, filterStatus, filterPriority, o)
        /\ UNCHANGED <<searchQuery, filterStatus, filterPriority, now, nonPageVars>>

\* time passes; the memo does not depend on the clock and is not re-run
Tick ==
    /\ now < MaxNow
    /\ now' = now + 1
    /\ UNCHANGED <<todos, searchQuery, filterStatus, filterPriority,
                   sortOption, filteredTodos, derivedAt, nonPageVars>>

\* the page after fetchTodos stored the rows and the first render ran
Init ==
    /\ todos \in StoreLists
    /\ searchQuery = <<>>
    /\ filterStatus = "all"
    /\ filterPriority = "all"
    /\ sortOption = "created_date"
    /\ now = getTime(Ts(1, 0))
    /\ derivedAt = now
    /\ filteredTodos =
           filteredTodosMemo(todos, searchQuery, filterStatus, filterPriority,
                             sortOption, now).items
    /\ rawData = NULL
    /\ currentDate = NULL
    /\ timezoneOffset = 0
    /\ processedData = NULL
    /\ req = NULL
    /\ handler = NULL
    /\ ClientAtRest

Next ==
    \/ SetSearchQuery
    \/ SetFilterStatus
    \/ SetFilterPriority
    \/ SetSortOption
    \/ Tick

Spec == Init /\ [][Next]_vars

-----------------------------------------------------------------------------
(* Properties of the derivation pipeline *)

Range(seq) == { seq[i] : i \in 1..Len(seq) }
Ids(seq) == [i \in 1..Len(seq) |-> seq[i].id]

\* the text contains the query at some position, letter case ignored
ContainsIgnoringCase(text, q) ==
    \E i \in 1..(Len(text) - Len(q) + 1) :
        \A j \in 1..Len(q) : LowerChar(text[i + j - 1]) = LowerChar(q[j])

\* the three status predicates, as the status of a record at instant t
IsDone(todo) == todo.completed
IsOverdue(todo, t) ==
    ~todo.completed /\ todo.due_date # NULL /\ getTime(Val(todo.due_date)) < t
IsInProgress(todo, t) ==
    ~todo.completed /\ (todo.due_date = NULL \/ ~(getTime(Val(todo.due_date)) < t))

\* a record satisfies every active predicate of the criteria at instant t
SatisfiesCriteria(todo, query, status, priority, t) ==
    /\ query # <<>> =>
          \/ ContainsIgnoringCase(todo.title, query)
          \/ todo.description # NULL /\ ContainsIgnoringCase(Val(todo.description), query)
    /\ status = "done" => IsDone(todo)
    /\ status = "overdue" => IsOverdue(todo, t)
    /\ status = "in_progress" => IsInProgress(todo, t)
    /\ priority # "all" => todo.priority # NULL /\ Val(todo.priority) = priority

\* C1: the derived list holds only records of todos, none twice, and exactly
\* the records of todos that satisfy every active predicate (search, status,
\* priority); a specific priority filter excludes records without priority.
C1_DerivedIsExactFilter ==
    /\ \A i \in 1..Len(filteredTodos) : filteredTodos[i] \in Range(todos)
    /\ \A i, j \in 1..Len(filteredTodos) : i # j => filteredTodos[i] # filteredTodos[j]
    /\ \A todo \in Range(todos) :
          todo \in Range(filteredTodos)
             <=> SatisfiesCriteria(todo, searchQuery, filterStatus, filterPriority, derivedAt)

\* all three filters are active, a record passed, and a record without
\* priority was excluded although it passes the search and status filters
C1_Witness ==
    /\ searchQuery # <<>>
    /\ filterStatus # "all"
    /\ filterPriority = "low"
    /\ filteredTodos # <<>>
    /\ \E todo \in Range(todos) :
          /\ todo.priority = NULL
          /\ todo \notin Range(filteredTodos)
          /\ SatisfiesCriteria(todo, searchQuery, filterStatus, "all", derivedAt)

\* the result of the status filter alone, at the current instant
StatusFiltered(status) ==
    Range(filteredTodosMemo(todos, <<>>, status, "all", sortOption, now).items)

\* C2: at the current instant every record satisfies exactly one of the
\* status predicates done, overdue, in-progress, and the three status
\* filters partition the list.
C2_StatusPartition ==
    /\ \A todo \in Range(todos) :
          Cardinality({ s \in {"done", "overdue", "in_progress"} :
                          MatchesStatus(todo, s, now) }) = 1
    /\ StatusFiltered("done") \cup StatusFiltered("overdue")
          \cup StatusFiltered("in_progress") = Range(todos)
    /\ StatusFiltered("done") \cap StatusFiltered("overdue") = {}
    /\ StatusFiltered("done") \cap StatusFiltered("in_progress") = {}
    /\ StatusFiltered("overdue") \cap StatusFiltered("in_progress") = {}

\* the list holds a completed record with a due date, an open record that is
\* due exactly now and an open record without due date
C2_Witness ==
    /\ \E todo \in Range(todos) : todo.completed /\ todo.due_date # NULL
    /\ \E todo \in Range(todos) :
          ~todo.completed /\ todo.due_date # NULL /\ getTime(Val(todo.due_date)) = now
    /\ \E todo \in Range(todos) : ~todo.completed /\ todo.due_date = NULL

\* C3: with the sort key due-date no undated record precedes a dated record
\* and the dated records are in ascending due-date order.
C3_DueDateOrder ==
    sortOption = "due_date" =>
        \A i, j \in 1..Len(filteredTodos) :
            i < j =>
                /\ ~(filteredTodos[i].due_date = NULL /\ filteredTodos[j].due_date # NULL)
                /\ (filteredTodos[i].due_date # NULL /\ filteredTodos[j].due_date # NULL) =>
                       getTime(Val(filteredTodos[i].due_date))
                           <= getTime(Val(filteredTodos[j].due_date))

\* sorted by due date, with an undated record and two differently dated
\* records, and the sort had to move records
C3_Witness ==
    /\ sortOption = "due_date"
    /\ \E i \in 1..Len(filteredTodos) : filteredTodos[i].due_date = NULL
    /\ \E i, j \in 1..Len(filteredTodos) :
          /\ filteredTodos[i].due_date # NULL
          /\ filteredTodos[j].due_date # NULL
          /\ filteredTodos[i].due_date # filteredTodos[j].due_date
    /\ filteredTodos # todos
    /\ Len(filteredTodos) = Len(todos)

\* the rank of a record under the priority sort: high 3, medium 2, low or
\* absent 1
PriorityRank(todo) ==
    IF todo.priority = Some("high") THEN 3
    ELSE IF todo.priority = Some("medium") THEN 2
    ELSE 1

\* the record with an absent priority replaced by an explicit low
AbsentAsLow(todo) ==
    [todo EXCEPT !.priority = IF @ = NULL THEN Some("low") ELSE @]

\* C4: with the sort key priority the derived list is in descending rank
\* order high > medium > low with absent ranked as low, and it is ordered
\* exactly as the list in which every absent priority is an explicit low.
C4_PriorityOrder ==
    sortOption = "priority" =>
        /\ \A i, j \in 1..Len(filteredTodos) :
              i < j => PriorityRank(filteredTodos[i]) >= PriorityRank(filteredTodos[j])
        /\ filterPriority = "all" =>
              Ids(filteredTodos) =
                 Ids(filteredTodosMemo([i \in 1..Len(todos) |-> AbsentAsLow(todos[i])],
                                       searchQuery, filterStatus, filterPriority,
                                       sortOption, derivedAt).items)

\* sorted by priority with two records without priority, a record with an
\* explicit priority above low, and the sort had to move records
C4_Witness ==
    /\ sortOption = "priority"
    /\ \E i, j \in 1..Len(filteredTodos) :
          i # j /\ filteredTodos[i].priority = NULL /\ filteredTodos[j].priority = NULL
    /\ \E i \in 1..Len(filteredTodos) : PriorityRank(filteredTodos[i]) > 1
    /\ filteredTodos # todos
    /\ Len(filteredTodos) = Len(todos)

\* C5: applying the pipeline to its own output, with the same criteria at
\* the same instant, yields the same list.
C5_DeriveIdempotent ==
    filteredTodosMemo(filteredTodos, searchQuery, filterStatus, filterPriority,
                      sortOption, derivedAt).items = filteredTodos

\* a filter removed a record, the list is sorted by another key than the
\* order of the store, and two records of the result tie under the sort key
C5_Witness ==
    /\ Len(filteredTodos) < Len(todos)
    /\ Len(filteredTodos) >= 2
    /\ sortOption # "created_date"
    /\ \E i, j \in 1..Len(filteredTodos) :
          i # j /\ compareTodos(filteredTodos[i], filteredTodos[j], sortOption) = 0

\* C6: a change of the search string, a filter or the sort key leaves the
\* stored todo list as it was, records and order.
C6_TodosUnchanged ==
    [][ (\/ searchQuery' # searchQuery
         \/ filterStatus' # filterStatus
         \/ filterPriority' # filterPriority
         \/ sortOption' # sortOption) => todos' = todos ]_vars

\* no filter is active, so the memo sorted the spread copy itself, and the
\* sorted copy is in another order than the stored list
C6_Witness ==
    /\ searchQuery = <<>>
    /\ filterStatus = "all"
    /\ filterPriority = "all"
    /\ sortOption # "created_date"
    /\ Len(filteredTodos) = Len(todos)
    /\ filteredTodos # todos
    /\ todos \in StoreLists

-----------------------------------------------------------------------------
(* postprocessResult of the generate-todo route *)

MIN_TITLE_LENGTH == 1
MAX_TITLE_LENGTH == 100

\* a text of n characters
Text(n) == [i \in 1..n |-> IF i % 2 = 1 THEN "a" ELSE "b"]

\* String.prototype.substring(from, to), 0 <= from <= to
substring(s, from, to) ==
    SubSeq(s, from + 1, IF to < Len(s) THEN to ELSE Len(s))

\* "..."
Ellipsis == <<".", ".", ".">>

\* the placeholder title, three characters
PlaceholderTitle == <<"hal", " ", "il">>

\* the fallback category list, one label of two characters
FallbackCategory == << <<"gi", "ta">> >>

\* truthiness of an optional string: neither absent nor ""
TruthyString(x) == x # NULL /\ Val(x) # <<>>

\* Date strings.  "date" is the date-only form YYYY-MM-DD, "datetime" the
\* form YYYY-MM-DDTHH:mm without offset, "other" a text that is not a date,
\* "empty" the string "".
DateOnly(d) == [form |-> "date", day |-> d, hour |-> 0]
DateTime(d, h) == [form |-> "datetime", day |-> d, hour |-> h]
NotADate == [form |-> "other", day |-> 0, hour |-> 0]
EmptyDate == [form |-> "empty", day |-> 0, hour |-> 0]

\* new Date(string): the date-only form is read as UTC midnight, the
\* date-time form as local time, anything else is an Invalid Date
NewDate(str, tz) ==
    CASE str.form = "date" -> [valid |-> TRUE, time |-> str.day * 24]
      [] str.form = "datetime" -> [valid |-> TRUE, time |-> str.day * 24 + str.hour - tz]
      [] OTHER -> [valid |-> FALSE, time |-> 0]

\* Date.prototype.setHours(0, 0, 0, 0): midnight of the local day
setHoursZero(date, tz) ==
    IF ~date.valid THEN date
    ELSE [date EXCEPT !.time = (@ + tz) - ((@ + tz) % 24) - tz]

\* dueDate < today on Date objects; false when either is an Invalid Date
DateLess(a, b) == a.valid /\ b.valid /\ a.time < b.time

\* /^\d{2}:\d{2}$/.test(s)
Digits == {"0", "1", "2", "3", "4", "5", "6", "7", "8", "9"}
TimePatternTest(s) ==
    /\ Len(s) = 5
    /\ s[1] \in Digits /\ s[2] \in Digits
    /\ s[3] = ":"
    /\ s[4] \in Digits /\ s[5] \in Digits

\* a category value: an array of labels, or a value that is no array (a
\* string, whose characters are the items)
ArrayOf(labels) == [isArray |-> TRUE, items |-> labels]
NoArray(chars) == [isArray |-> FALSE, items |-> chars]

\* truthiness of an optional category value: every array is truthy, a string
\* only when it is not ""
TruthyCategory(x) == x # NULL /\ (Val(x).isArray \/ Val(x).items # <<>>)

\* variant: the cut keeps MAX_TITLE_LENGTH characters in front of the "..."
PostTitle_LongCut(title) ==
    IF TruthyString(title)
    THEN IF Len(Val(title)) < MIN_TITLE_LENGTH THEN Some(PlaceholderTitle)
         ELSE IF Len(Val(title)) > MAX_TITLE_LENGTH
              THEN Some(substring(Val(title), 0, MAX_TITLE_LENGTH) \o Ellipsis)
              ELSE title
    ELSE Some(PlaceholderTitle)

\* the title branch
PostTitle(title) ==
    IF TruthyString(title)
    THEN IF Len(Val(title)) < MIN_TITLE_LENGTH THEN Some(PlaceholderTitle)
         ELSE IF Len(Val(title)) > MAX_TITLE_LENGTH
              THEN Some(substring(Val(title), 0, MAX_TITLE_LENGTH - 3) \o Ellipsis)
              ELSE title
    ELSE Some(PlaceholderTitle)

\* the due_date branch; a due_date is truthy unless absent or ""
PostDueDate(due_date, today, tz) ==
    IF due_date # NULL /\ Val(due_date) # EmptyDate
    THEN LET dueDate == setHoursZero(NewDate(Val(due_date), tz), tz)
             todayDate == setHoursZero(NewDate(today, tz), tz)
         IN  IF DateLess(dueDate, todayDate) THEN Some(today) ELSE due_date
    ELSE Some(today)

\* the due_time branch
PostDueTime(due_time) ==
    IF ~TruthyString(due_time) \/ ~TimePatternTest(Val(due_time))
    THEN Some(<<"0", "9", ":", "0", "0">>)
    ELSE due_time

\* the priority branch
PostPriority(priority) ==
    IF priority = NULL \/ Val(priority) = "" \/ Val(priority) \notin {"high", "medium", "low"}
    THEN Some("medium")
    ELSE priority

\* variant: the test for an empty array is missing
PostCategory_NoLengthTest(category) ==
    IF ~TruthyCategory(category) \/ ~Val(category).isArray
    THEN Some(ArrayOf(FallbackCategory))
    ELSE category

\* the category branch
PostCategory(category) ==
    IF ~TruthyCategory(category) \/ ~Val(category).isArray \/ Len(Val(category).items) = 0
    THEN Some(ArrayOf(FallbackCategory))
    ELSE category

\* the description branch
PostDescription(description) ==
    IF TruthyString(description) /\ Len(Val(description)) > 500
    THEN Some(substring(Val(description), 0, 497) \o Ellipsis)
    ELSE description

\* postprocessResult(data, currentDate), run on a server whose local time is
\* tz hours ahead of UTC
postprocessResult(data, today, tz) ==
    [title |-> PostTitle(data.title),
     description |-> PostDescription(data.description),
     due_date |-> PostDueDate(data.due_date, today, tz),
     due_time |-> PostDueTime(data.due_time),
     priority |-> PostPriority(data.priority),
     category |-> PostCategory(data.category)]

-----------------------------------------------------------------------------
(* The route: the outputs the model can hand to postprocessResult *)

RawTitles ==
    {NULL} \cup { Some(Text(n)) :
                    n \in {0, MIN_TITLE_LENGTH, MAX_TITLE_LENGTH}
                          \cup (MAX_TITLE_LENGTH + 1)..(MAX_TITLE_LENGTH + MaxOverrun) }

RawDescriptions ==
    {NULL} \cup { Some(Text(n)) : n \in 500..(500 + MaxOverrun) }

RawDueDates ==
    {NULL, Some(EmptyDate), Some(NotADate)}
        \cup { Some(DateOnly(d)) : d \in 1..MaxDay }
        \cup { Some(DateTime(d, 12)) : d \in 1..MaxDay }

\* now.toISOString().split("T")[0]
CurrentDates == { DateOnly(d) : d \in 2..MaxDay }

TimezoneOffsets == {-5, 0, 9}

RawDueTimes ==
    {NULL, Some(<<>>),
     Some(<<"1", "4", ":", "3", "0">>), Some(<<"2", "3", ":", "5", "9">>),
     Some(<<"2", "4", ":", "0", "0">>), Some(<<"1", "2", ":", "6", "0">>),
     Some(<<"9", ":", "0", "0">>), Some(<<"a", "b", ":", "c", "d">>)}

RawPriorities ==
    {NULL, Some(""), Some("high"), Some("medium"), Some("low"), Some("urgent")}

RawCategories ==
    {NULL, Some(NoArray(<<>>)), Some(NoArray(<<"w">>)),
     Some(ArrayOf(<<>>)), Some(ArrayOf(<< <<"w">> >>)),
     Some(ArrayOf(<< <<"w">>, <<>> >>))}

RawOutputs ==
    [title : RawTitles, description : RawDescriptions, due_date : RawDueDates,
     due_time : RawDueTimes, priority : RawPriorities, category : RawCategories]

\* const processedData = postprocessResult(result.object, currentDate)
Postprocess ==
    /\ processedData = NULL
    /\ processedData' = Some(postprocessResult(rawData, currentDate, timezoneOffset))
    /\ UNCHANGED <<rawData, currentDate, timezoneOffset, pageVars, apiVars, clientVars>>

\* generateObject has returned result.object
RouteInit ==
    /\ rawData \in RawOutputs
    /\ currentDate \in CurrentDates
    /\ timezoneOffset \in TimezoneOffsets
    /\ processedData = NULL
    /\ todos = <<>>
    /\ searchQuery = <<>>
    /\ filterStatus = "all"
    /\ filterPriority = "all"
    /\ sortOption = "created_date"
    /\ filteredTodos = <<>>
    /\ now = getTime(Ts(1, 0))
    /\ derivedAt = now
    /\ req = NULL
    /\ handler = NULL
    /\ ClientAtRest

RouteNext == Postprocess

RouteSpec == RouteInit /\ [][RouteNext]_vars

-----------------------------------------------------------------------------
(* Properties of postprocessResult *)

\* the tail of a text: its last n characters
LastChars(s, n) == SubSeq(s, Len(s) - n + 1, Len(s))

\* C7: the returned title is never empty: an empty or missing title becomes
\* the placeholder, and a title longer than MAX_TITLE_LENGTH is cut so that
\* the result ends with "..." and has at most MAX_TITLE_LENGTH characters.
C7_TitleNeverEmpty ==
    processedData # NULL =>
        LET title == Val(processedData).title
            raw == rawData.title
        IN  /\ title # NULL
            /\ Len(Val(title)) >= 1
            /\ Len(Val(title)) <= MAX_TITLE_LENGTH
            /\ (raw = NULL \/ Val(raw) = <<>>) => Val(title) = PlaceholderTitle
            /\ (raw # NULL /\ Len(Val(raw)) > MAX_TITLE_LENGTH) =>
                  /\ LastChars(Val(title), 3) = Ellipsis
                  /\ SubSeq(Val(title), 1, Len(Val(title)) - 3)
                        = SubSeq(Val(raw), 1, Len(Val(title)) - 3)

\* the call has returned for a raw title longer than MAX_TITLE_LENGTH
C7_Witness ==
    /\ processedData # NULL
    /\ rawData.title # NULL
    /\ Len(Val(rawData.title)) > MAX_TITLE_LENGTH
    /\ Val(processedData).title # rawData.title

\* the calendar day a date string names lies before the day of today
LiesBefore(str, today) == str.form \in {"date", "datetime"} /\ str.day < today.day

\* C8: the returned due_date never lies before the reference today, whatever
\* the raw due_date was (absent, empty, malformed or a date).
C8_DueDateNotBeforeToday ==
    processedData # NULL =>
        /\ Val(processedData).due_date # NULL
        /\ ~LiesBefore(Val(Val(processedData).due_date), currentDate)

\* the value of a decimal digit
DigitValue(c) ==
    CASE c = "0" -> 0 [] c = "1" -> 1 [] c = "2" -> 2 [] c = "3" -> 3
      [] c = "4" -> 4 [] c = "5" -> 5 [] c = "6" -> 6 [] c = "7" -> 7
      [] c = "8" -> 8 [] c = "9" -> 9

\* a time of day in the 24-hour form HH:MM, hours 00-23 and minutes 00-59
IsTime24(s) ==
    /\ Len(s) = 5
    /\ s[3] = ":"
    /\ \A i \in {1, 2, 4, 5} : s[i] \in Digits
    /\ 10 * DigitValue(s[1]) + DigitValue(s[2]) <= 23
    /\ 10 * DigitValue(s[4]) + DigitValue(s[5]) <= 59

\* C9: the returned due_time is always a time of day in the 24-hour form
\* HH:MM, hours 00-23 and minutes 00-59.
C9_DueTimeIs24Hour ==
    processedData # NULL =>
        /\ Val(processedData).due_time # NULL
        /\ IsTime24(Val(Val(processedData).due_time))

\* C10: the returned priority is high, medium or low, and is medium when
\* the raw priority was absent or invalid; the returned category is a
\* non-empty list, and is the single fallback category when the raw category
\* was absent, not a list, or empty.
C10_EnumeratedFieldsWellFormed ==
    processedData # NULL =>
        LET priority == Val(processedData).priority
            category == Val(processedData).category
            rawPriority == rawData.priority
            rawCategory == rawData.category
            rawPriorityValid == rawPriority \in {Some("high"), Some("medium"), Some("low")}
            rawCategoryUsable ==
                rawCategory # NULL /\ Val(rawCategory).isArray /\ Val(rawCategory).items # <<>>
        IN  /\ priority \in {Some("high"), Some("medium"), Some("low")}
            /\ ~rawPriorityValid => priority = Some("medium")
            /\ rawPriorityValid => priority = rawPriority
            /\ category # NULL
            /\ Val(category).isArray
            /\ Len(Val(category).items) >= 1
            /\ ~rawCategoryUsable => Val(category) = ArrayOf(FallbackCategory)
            /\ rawCategoryUsable => category = rawCategory

\* the call has returned for an invalid raw priority and an empty raw
\* category list
C10_Witness ==
    /\ processedData # NULL
    /\ rawData.priority = Some("urgent")
    /\ rawData.category = Some(ArrayOf(<<>>))
    /\ Val(processedData).priority = Some("medium")

-----------------------------------------------------------------------------
(* Part 3: the POST handlers of the two AI routes                          *)
(*                                                                         *)
(* A request text is a sequence of characters.  "E" stands for one emoji   *)
(* of U+1F300..U+1F9FF (one code point, two UTF-16 code units), "'" for    *)
(* the combining acute accent U+0301 and "e'" for the precomposed letter   *)
(* that NFC makes of "e" followed by "'".  An error message is a sequence  *)
(* of words; a keyword of the source is the sequence of its words.         *)

MIN_TEXT_LENGTH == 2
MAX_TEXT_LENGTH == 500

\* what the regular expression class \s and String.prototype.trim remove
IsWhitespace(c) == c \in {" ", "\n"}

\* the characters of a text with their positions
Indexed(s) == [i \in 1..Len(s) |-> [at |-> i, char |-> s[i]]]

\* String.prototype.trim
trim(s) ==
    LET inked == { i \in 1..Len(s) : ~IsWhitespace(s[i]) }
        first == CHOOSE i \in inked : \A j \in inked : i <= j
        last == CHOOSE i \in inked : \A j \in inked : j <= i
    IN  IF inked = {} THEN <<>> ELSE SubSeq(s, first, last)

\* processed.replace(/\s+/g, " "): of every run of whitespace the first
\* character stays, as a space
collapseWhitespace(s) ==
    LET kept == SelectSeq(Indexed(s),
                          LAMBDA p : \/ ~IsWhitespace(p.char)
                                     \/ p.at = 1
                                     \/ ~IsWhitespace(s[p.at - 1]))
    IN  [i \in 1..Len(kept) |->
            IF IsWhitespace(kept[i].char) THEN " " ELSE kept[i].char]

\* processed.normalize("NFC"): a letter and the accent that follows it
\* become the precomposed letter
normalizeNFC(s) ==
    LET kept == SelectSeq(Indexed(s),
                          LAMBDA p : ~(p.char = "'" /\ p.at > 1 /\ s[p.at - 1] = "e"))
    IN  [i \in 1..Len(kept) |->
            IF /\ kept[i].char = "e"
               /\ kept[i].at < Len(s)
               /\ s[kept[i].at + 1] = "'"
            THEN "e'"
            ELSE kept[i].char]

preprocessInput(text) == normalizeNFC(collapseWhitespace(trim(text)))

\* String.prototype.length: the number of UTF-16 code units, two for every
\* character outside the basic plane
length(s) == Len(s) + Len(SelectSeq(s, LAMBDA c : c = "E"))

\* (text.match(emojiRegex) || []).length
emojiCount(text) == Len(SelectSeq(text, LAMBDA c : c = "E"))

Valid == [valid |-> TRUE, error |-> "none"]
Invalid(why) == [valid |-> FALSE, error |-> why]

validateInput_NoEmojiTest(text) ==
    IF text = <<>> \/ length(trim(text)) = 0 THEN Invalid("empty")
    ELSE IF length(text) < MIN_TEXT_LENGTH THEN Invalid("too_short")
    ELSE IF length(text) > MAX_TEXT_LENGTH THEN Invalid("too_long")
    ELSE Valid

validateInput(text) ==
    IF text = <<>> \/ length(trim(text)) = 0 THEN Invalid("empty")
    ELSE IF length(text) < MIN_TEXT_LENGTH THEN Invalid("too_short")
    ELSE IF length(text) > MAX_TEXT_LENGTH THEN Invalid("too_long")
    ELSE IF emojiCount(text) > 10 THEN Invalid("too_many_emoji")
    ELSE Valid

\* a thrown value: an instance of Error with a message, or anything else
ErrorOf(words) == [isError |-> TRUE, message |-> words]
NotAnError(words) == [isError |-> FALSE, message |-> words]

\* error.message.includes(k1) || error.message.includes(k2) || ...
IncludesAny(message, keywords) == \E k \in keywords : includes(message, k)

RateLimitKeywords ==
    {<<"429">>, <<"quota">>, <<"rate", "limit">>, <<"too", "many", "requests">>}

AuthKeywords ==
    {<<"API", "key">>, <<"authentication">>, <<"401">>, <<"unauthorized">>}

ModelKeywords == {<<"model">>, <<"not", "found">>, <<"404">>}

BadRequestKeywords == {<<"400">>, <<"bad", "request">>, <<"invalid">>}

generateCatch_ModelFirst(caught) ==
    IF caught.isError /\ IncludesAny(caught.message, RateLimitKeywords) THEN 429
    ELSE IF caught.isError /\ IncludesAny(caught.message, ModelKeywords) THEN 404
    ELSE IF caught.isError /\ IncludesAny(caught.message, AuthKeywords) THEN 401
    ELSE IF caught.isError /\ IncludesAny(caught.message, BadRequestKeywords) THEN 400
    ELSE 500

\* the catch block of the generate-todo POST: the status of the response
generateCatch(caught) ==
    IF caught.isError /\ IncludesAny(caught.message, RateLimitKeywords) THEN 429
    ELSE IF caught.isError /\ IncludesAny(caught.message, AuthKeywords) THEN 401
    ELSE IF caught.isError /\ IncludesAny(caught.message, ModelKeywords) THEN 404
    ELSE IF caught.isError /\ IncludesAny(caught.message, BadRequestKeywords) THEN 400
    ELSE 500

analyzeCatch_AuthFirst(caught) ==
    IF caught.isError /\ IncludesAny(caught.message, AuthKeywords) THEN 401
    ELSE IF caught.isError /\ IncludesAny(caught.message, RateLimitKeywords) THEN 429
    ELSE IF caught.isError /\ IncludesAny(caught.message, ModelKeywords) THEN 404
    ELSE IF caught.isError /\ IncludesAny(caught.message, BadRequestKeywords) THEN 400
    ELSE 500

\* the catch block of the analyze-todos POST: the status of the response
analyzeCatch(caught) ==
    IF caught.isError /\ IncludesAny(caught.message, RateLimitKeywords) THEN 429
    ELSE IF caught.isError /\ IncludesAny(caught.message, AuthKeywords) THEN 401
    ELSE IF caught.isError /\ IncludesAny(caught.message, ModelKeywords) THEN 404
    ELSE IF caught.isError /\ IncludesAny(caught.message, BadRequestKeywords) THEN 400
    ELSE 500

\* A calendar date of the server's local time zone.  Month 0 is December
\* 2023, month 1 January 2024, and so on.
LocalDate(m, d) == [month |-> m, date |-> d]

MonthLength(m) ==
    CASE m = 2 -> 29
      [] m = 4 -> 30
      [] OTHER -> 31

RECURSIVE DaysBefore(_)
DaysBefore(m) == IF m = 0 THEN 0 ELSE DaysBefore(m - 1) + MonthLength(m - 1)

\* days since 30 November 2023
DayNumber(d) == DaysBefore(d.month) + d.date

\* Date.prototype.getDay: 0 = Sunday, 1 = Monday, ..., 6 = Saturday
\* (1 December 2023 was a Friday)
getDay(d) == (DayNumber(d) + 4) % 7

\* Date.prototype.setDate: a day of the month outside the month rolls over
\* into the neighbouring months
RECURSIVE setDate(_, _)
setDate(d, n) ==
    IF n < 1
    THEN setDate(LocalDate(d.month - 1, 1), n + MonthLength(d.month - 1))
    ELSE IF n > MonthLength(d.month)
         THEN setDate(LocalDate(d.month + 1, 1), n - MonthLength(d.month))
         ELSE LocalDate(d.month, n)

mondayOffset_NoSundayCase(dayOfWeek) == 1 - dayOfWeek

\* const mondayOffset = dayOfWeek === 0 ? -6 : 1 - dayOfWeek
mondayOffset(dayOfWeek) == IF dayOfWeek = 0 THEN -6 ELSE 1 - dayOfWeek

\* weekStart.setDate(today.getDate() + mondayOffset)
weekStartOf(today) == setDate(today, today.date + mondayOffset(getDay(today)))

\* weekEnd.setDate(weekStart.getDate() + 6)
weekEndOf(weekStart) == setDate(weekStart, weekStart.date + 6)

\* new Date(year, month, date).getTime() of a local date, in hours; the
\* timestamps of the rows count their days from the same day
midnight(d) == DayNumber(d) * 24

\* date.toISOString().split("T")[0] for the local midnight of a day: the
\* day of that instant in UTC, which is the day before when the server's
\* clock is ahead of UTC
toISODate(dayNumber, utcOffset) ==
    IF utcOffset > 0 THEN dayNumber - 1 ELSE dayNumber

\* `${isoDate}T00:00:00.000Z` as an instant of the server's clock, in hours
utcMidnight(isoDay, utcOffset) == isoDay * 24 + utcOffset

\* the filter of the first query:
\* due_date.is.null,and(due_date.gte.<from>,due_date.lt.<to>)
InPeriod(todo, period, today, utcOffset) ==
    LET weekStart == weekStartOf(today)
        weekEnd == weekEndOf(weekStart)
        from == IF period = "today"
                THEN toISODate(DayNumber(today), utcOffset)
                ELSE toISODate(DayNumber(weekStart), utcOffset)
        to == IF period = "today"
              THEN toISODate(DayNumber(today) + 1, utcOffset)
              ELSE toISODate(DayNumber(weekEnd) + 1, utcOffset)
    IN  \/ todo.due_date = NULL
        \/ /\ getTime(Val(todo.due_date)) >= utcMidnight(from, utcOffset)
           /\ getTime(Val(todo.due_date)) < utcMidnight(to, utcOffset)

\* Math.ceil(hours / 24); Math.ceil gives -0 between -1 and 0, and -0 >= 0
ceilDays(hours) == -((-hours) \div 24)

\* Math.ceil((dueDate.getTime() - today.getTime()) / (1000 * 60 * 60 * 24))
daysUntilDue(dueDate, today) == ceilDays(getTime(dueDate) - midnight(today))

\* the test of the urgentTasks filter
isUrgent(t, today) ==
    IF t.completed THEN FALSE
    ELSE IF t.priority = Some("high") THEN TRUE
    ELSE IF t.due_date # NULL
         THEN /\ daysUntilDue(Val(t.due_date), today) <= 1
              /\ daysUntilDue(Val(t.due_date), today) >= 0
         ELSE FALSE

\* todos.filter(...).map((t) => t.title)
urgentTasks(rows, today) ==
    LET urgent == SelectSeq(rows, LAMBDA t : isUrgent(t, today))
    IN  [i \in 1..Len(urgent) |-> urgent[i].title]

\* { total: todos.filter(priority === p).length,
\*   completed: todos.filter(priority === p && completed).length }
priorityCount(rows, priority) ==
    [total |-> Len(SelectSeq(rows, LAMBDA t : t.priority = priority)),
     completed |->
         Len(SelectSeq(rows, LAMBDA t : t.priority = priority /\ t.completed))]

\* priorityStats; !t.priority holds for the rows without a priority
priorityStats(rows) ==
    [high |-> priorityCount(rows, Some("high")),
     medium |-> priorityCount(rows, Some("medium")),
     low |-> priorityCount(rows, Some("low")),
     none |-> priorityCount(rows, NULL)]

\* Date.prototype.getHours
getHours(ts) == ts.hour

slotOf_NightAfter21(todo) ==
    IF todo.due_date = NULL THEN "none"
    ELSE LET hour == getHours(Val(todo.due_date))
         IN  IF hour >= 9 /\ hour < 12 THEN "morning"
             ELSE IF hour >= 12 /\ hour < 18 THEN "afternoon"
             ELSE IF hour >= 18 /\ hour < 21 THEN "evening"
             ELSE IF hour >= 21 THEN "night"
             ELSE "unassigned"

\* the counter the forEach of timeSlots increments for a todo
slotOf(todo) ==
    IF todo.due_date = NULL THEN "none"
    ELSE LET hour == getHours(Val(todo.due_date))
         IN  IF hour >= 9 /\ hour < 12 THEN "morning"
             ELSE IF hour >= 12 /\ hour < 18 THEN "afternoon"
             ELSE IF hour >= 18 /\ hour < 21 THEN "evening"
             ELSE "night"

\* timeSlots after the forEach
timeSlots(rows) ==
    [slot \in {"morning", "afternoon", "evening", "night", "none"} |->
        Len(SelectSeq(rows, LAMBDA t : slotOf(t) = slot))]

\* the statistics the handler computes from the rows of the period
Statistics(rows, today) ==
    [totalCount |-> Len(rows),
     completedCount |-> Len(SelectSeq(rows, LAMBDA t : t.completed)),
     priorityStats |-> priorityStats(rows),
     urgentTasks |-> urgentTasks(rows, today),
     timeSlots |-> timeSlots(rows)]

\* the JSON bodies of the responses
ErrorBody(why) == [success |-> FALSE, error |-> why]
SuccessBody(data) == [success |-> TRUE, data |-> data]

EmptyResult_AlwaysToday(period) ==
    [summary |-> "no_todos_today",
     urgentTasks |-> <<>>,
     insights |-> <<"add_a_todo_to_start">>,
     recommendations |-> <<"add_a_new_todo">>]

\* the data returned when the query found no todo
EmptyResult(period) ==
    [summary |-> IF period = "today" THEN "no_todos_today" ELSE "no_todos_this_week",
     urgentTasks |-> <<>>,
     insights |-> <<"add_a_todo_to_start">>,
     recommendations |-> <<"add_a_new_todo">>]

\* the handler has received the request and has run nothing yet
HandlerStart ==
    [pc |-> "received", response |-> NULL, modelCalls |-> 0, todoQueries |-> 0,
     thrown |-> NULL, weekStart |-> NULL, weekEnd |-> NULL, stats |-> NULL]

\* return NextResponse.json(body, { status })
Respond(h, status, body) ==
    [h EXCEPT !.pc = "done", !.response = Some([status |-> status, body |-> body])]

\* a value of the JSON body: a string, or something that is not a string
StringValue(chars) == [type |-> "string", chars |-> chars]
NumberValue == [type |-> "number", chars |-> <<>>]

NotJson == [json |-> FALSE, isNull |-> FALSE, text |-> NULL, period |-> NULL]
TextBody(text) == [json |-> TRUE, isNull |-> FALSE, text |-> text, period |-> NULL]
PeriodBody(period) ==
    [json |-> TRUE, isNull |-> FALSE, text |-> NULL, period |-> period]

\* the JSON text null: request.json() returns null
JsonNull == [json |-> TRUE, isNull |-> TRUE, text |-> NULL, period |-> NULL]

\* what const { text } = body and const { period } = body throw for null
DestructureError ==
    ErrorOf(<<"Cannot", "destructure", "property", "of", "body", "as", "it",
              "is", "null">>)

\* one emoji n times
Emojis(n) == [i \in 1..n |-> "E"]

RequestTexts ==
    {<<>>, <<" ", "\n">>, <<"a">>, <<" ", "a", "\n">>, <<"e", "'">>,
     <<"a", "b">>, <<"a", " ", "\n", "b">>, <<"E">>,
     <<" ">> \o Text(MAX_TEXT_LENGTH) \o <<"\n">>}
        \cup { Text(n) : n \in MAX_TEXT_LENGTH..(MAX_TEXT_LENGTH + MaxOverrun) }
        \cup { Emojis(n) : n \in 10..(10 + MaxOverrun) }

GenerateBodies ==
    {NotJson, JsonNull, TextBody(NULL), TextBody(Some(NumberValue))}
        \cup { TextBody(Some(StringValue(t))) : t \in RequestTexts }

\* the caller's session: Some(user id) when supabase.auth.getUser() finds a
\* user, NULL when there is no valid session
Sessions == {NULL, Some("me")}

GenerateRequests ==
    [endpoint : {"generate-todo"}, apiKey : BOOLEAN, user : Sessions,
     body : GenerateBodies, today : {LocalDate(1, 2)}, rows : {NULL}]

AnalyzeBodies ==
    {NotJson, JsonNull, PeriodBody(NULL), PeriodBody(Some("")),
     PeriodBody(Some("today")),
     PeriodBody(Some("week")), PeriodBody(Some("month"))}

\* the last week of January 2024 and the first of February: every weekday
\* twice, with weeks that span the end of the month
AnalyzeDays ==
    { LocalDate(1, d) : d \in 25..31 } \cup { LocalDate(2, d) : d \in 1..7 }

\* the answer of the store to the first query: { data, error }
QueryFailed(caught) == [ok |-> FALSE, data |-> NULL, error |-> caught]
QueryData(data) == [ok |-> TRUE, data |-> data, error |-> NotAnError(<<>>)]

\* rows in an answer of the first query of the analysis
MaxRows == 2

\* a timestamp of the server's clock on a calendar day
At(month, date, hour) == Ts(DayNumber(LocalDate(month, date)), hour)

\* rows with due dates from Tuesday 30 January to Thursday 1 February 2024,
\* in every part of the day, and rows without a due date
AnalysisPool ==
    { Todo(21, <<"a">>,      NULL, Some(At(1, 30, 10)), Some("low"),    FALSE),
      Todo(22, <<"b">>,      NULL, Some(At(1, 31, 0)),  Some("medium"), FALSE),
      Todo(23, <<"A">>,      NULL, Some(At(2, 1, 13)),  NULL,           TRUE),
      Todo(24, <<"B">>,      NULL, Some(At(2, 1, 19)),  Some("high"),   FALSE),
      Todo(25, <<"a", "b">>, NULL, Some(At(2, 1, 4)),   Some("low"),    FALSE),
      Todo(26, <<"b", "a">>, NULL, NULL,                Some("high"),   TRUE),
      Todo(27, <<"A", "B">>, NULL, NULL,                NULL,           FALSE) }

\* .order("due_date", { ascending: true }): rows without a due date last
OrderedByDueDate(rows) ==
    \A i, j \in 1..Len(rows) :
        i < j =>
            \/ rows[j].due_date = NULL
            \/ /\ rows[i].due_date # NULL
               /\ getTime(Val(rows[i].due_date)) <= getTime(Val(rows[j].due_date))

\* the lists the first query can return from a table of the pool
AnalysisLists ==
    { rows \in UNION { [1..n -> AnalysisPool] : n \in 1..MaxRows } :
        /\ \A i, j \in 1..Len(rows) : i # j => rows[i] # rows[j]
        /\ OrderedByDueDate(rows) }

QueryAnswers ==
    {QueryFailed(NotAnError(<<"rate", "limit">>)), QueryFailed(ErrorOf(<<"boom">>)),
     QueryData(NULL)}
        \cup { QueryData(Some(l)) : l \in { s \in StoreLists : Len(s) <= 1 } }
        \cup { QueryData(Some(l)) : l \in AnalysisLists }

\* hours the server's clock is ahead of UTC: a server on UTC, one in Seoul
UtcOffsets == {0, 9}

\* the answer of the store is one the query of the request can get: every
\* row passes the filter of the period
AnswerFitsQuery(r) ==
    (/\ r.body.period \in {Some("today"), Some("week")}
     /\ r.rows.ok
     /\ r.rows.data # NULL) =>
        \A i \in 1..Len(Val(r.rows.data)) :
            InPeriod(Val(r.rows.data)[i], Val(r.body.period), r.today, r.utcOffset)

AnalyzeRequests ==
    { r \in [endpoint : {"analyze-todos"}, apiKey : BOOLEAN, user : Sessions,
             body : AnalyzeBodies, today : AnalyzeDays, utcOffset : UtcOffsets,
             rows : QueryAnswers] : AnswerFitsQuery(r) }

\* what generateObject can throw
ThrownValues ==
    {ErrorOf(<<"rate", "limit", "exceeded">>), ErrorOf(<<"Rate", "limit">>),
     ErrorOf(<<"429">>), ErrorOf(<<"quota", "exceeded", "for", "model">>),
     ErrorOf(<<"too", "many", "requests">>),
     ErrorOf(<<"invalid", "API", "key", "rate", "limit">>),
     ErrorOf(<<"API", "key", "not", "found">>), ErrorOf(<<"unauthorized">>),
     ErrorOf(<<"model", "is", "invalid">>), ErrorOf(<<"bad", "request">>),
     ErrorOf(<<"boom">>), NotAnError(<<"rate", "limit">>)}

\* two objects the model can return for an extraction
ExtractionOutputs ==
    {[title |-> Some(Text(MIN_TITLE_LENGTH)), description |-> NULL,
      due_date |-> Some(DateOnly(MaxDay)), due_time |-> NULL,
      priority |-> Some("high"), category |-> Some(ArrayOf(<< <<"w">> >>))],
     [title |-> NULL, description |-> NULL, due_date |-> NULL, due_time |-> NULL,
      priority |-> NULL, category |-> NULL]}

\* two objects the model can return for an analysis
AnalysisOutputs ==
    {[summary |-> "summary_1", urgentTasks |-> <<>>,
      insights |-> <<"insight_1">>, recommendations |-> <<"recommendation_1">>],
     [summary |-> "summary_2", urgentTasks |-> << <<"a">> >>,
      insights |-> <<"insight_1", "insight_2">>,
      recommendations |-> <<"recommendation_1">>]}

\* POST of generate-todo, up to the call of generateObject
HandleGenerate ==
    /\ req # NULL /\ handler # NULL
    /\ Val(req).endpoint = "generate-todo"
    /\ Val(handler).pc = "received"
    /\ LET r == Val(req)
           h == Val(handler)
           text == r.body.text
           preprocessedText == preprocessInput(Val(text).chars)
           validation == validateInput(preprocessedText)
       IN  IF ~r.apiKey
           THEN handler' = Some(Respond(h, 500, ErrorBody("api_key_missing")))
           ELSE IF ~r.body.json
           THEN handler' = Some(Respond(h, 400, ErrorBody("not_json")))
           ELSE IF r.body.isNull
           THEN handler' =
                    Some(Respond([h EXCEPT !.thrown = Some(DestructureError)],
                                 generateCatch(DestructureError),
                                 ErrorBody("caught")))
           ELSE IF text = NULL
           THEN handler' = Some(Respond(h, 400, ErrorBody("text_required")))
           ELSE IF Val(text).type # "string"
           THEN handler' = Some(Respond(h, 400, ErrorBody("text_not_a_string")))
           ELSE IF ~validation.valid
           THEN handler' = Some(Respond(h, 400, ErrorBody(validation.error)))
           ELSE handler' = Some([h EXCEPT !.pc = "calling", !.modelCalls = @ + 1])
    /\ UNCHANGED <<req, routeVars, pageVars, clientVars>>

\* generateObject returns result.object; the handler post-processes it
GenerateReturns ==
    \E object \in ExtractionOutputs :
        /\ req # NULL /\ handler # NULL
        /\ Val(req).endpoint = "generate-todo"
        /\ Val(handler).pc = "calling"
        /\ rawData' = object
        /\ processedData' =
               Some(postprocessResult(object, currentDate, timezoneOffset))
        /\ handler' =
               Some(Respond(Val(handler), 200, SuccessBody(Val(processedData'))))
        /\ UNCHANGED <<req, currentDate, timezoneOffset, pageVars, clientVars>>

\* generateObject throws; the catch block answers
GenerateThrows ==
    \E caught \in ThrownValues :
        /\ req # NULL /\ handler # NULL
        /\ Val(req).endpoint = "generate-todo"
        /\ Val(handler).pc = "calling"
        /\ handler' =
               Some(Respond([Val(handler) EXCEPT !.thrown = Some(caught)],
                            generateCatch(caught), ErrorBody("caught")))
        /\ UNCHANGED <<req, routeVars, pageVars, clientVars>>

\* the answer of a check that failed
Refusal(status, why, thrown) == [status |-> status, error |-> why, thrown |-> thrown]

analyzeChecks_BodyFirst(r) ==
    IF ~r.apiKey THEN Some(Refusal(500, "api_key_missing", NULL))
    ELSE IF ~r.body.json THEN Some(Refusal(400, "not_json", NULL))
    ELSE IF r.body.isNull
    THEN Some(Refusal(analyzeCatch(DestructureError), "caught",
                      Some(DestructureError)))
    ELSE IF r.body.period = NULL \/ r.body.period = Some("")
            \/ (r.body.period # Some("today") /\ r.body.period # Some("week"))
    THEN Some(Refusal(400, "period_required", NULL))
    ELSE IF r.user = NULL THEN Some(Refusal(401, "authentication_required", NULL))
    ELSE NULL

\* the checks of the analyze-todos POST before its first query, in their
\* order: the API key, the session, the JSON body, the period; NULL when
\* all pass
analyzeChecks(r) ==
    IF ~r.apiKey THEN Some(Refusal(500, "api_key_missing", NULL))
    ELSE IF r.user = NULL THEN Some(Refusal(401, "authentication_required", NULL))
    ELSE IF ~r.body.json THEN Some(Refusal(400, "not_json", NULL))
    ELSE IF r.body.isNull
    THEN Some(Refusal(analyzeCatch(DestructureError), "caught",
                      Some(DestructureError)))
    ELSE IF r.body.period = NULL \/ r.body.period = Some("")
            \/ (r.body.period # Some("today") /\ r.body.period # Some("week"))
    THEN Some(Refusal(400, "period_required", NULL))
    ELSE NULL

\* POST of analyze-todos, up to the call of generateObject
HandleAnalyze ==
    /\ req # NULL /\ handler # NULL
    /\ Val(req).endpoint = "analyze-todos"
    /\ Val(handler).pc = "received"
    /\ LET r == Val(req)
           h == Val(handler)
           period == r.body.period
           refused == analyzeChecks(r)
           weekStart == weekStartOf(r.today)
           weekEnd == weekEndOf(weekStart)
           queried == [h EXCEPT !.weekStart = Some(weekStart),
                                !.weekEnd = Some(weekEnd),
                                !.todoQueries = @ + 1]
       IN  IF refused # NULL
           THEN handler' =
                    Some(Respond([h EXCEPT !.thrown = Val(refused).thrown],
                                 Val(refused).status,
                                 ErrorBody(Val(refused).error)))
           ELSE IF ~r.rows.ok
           THEN handler' =
                    Some(Respond([queried EXCEPT !.thrown = Some(r.rows.error)],
                                 analyzeCatch(r.rows.error), ErrorBody("caught")))
           ELSE IF r.rows.data = NULL \/ Val(r.rows.data) = <<>>
           THEN handler' =
                    Some(Respond(queried, 200, SuccessBody(EmptyResult(Val(period)))))
           ELSE handler' =
                    Some([queried EXCEPT
                             !.pc = "calling",
                             !.todoQueries = @ + 1,
                             !.stats = Some(Statistics(Val(r.rows.data), r.today)),
                             !.modelCalls = @ + 1])
    /\ UNCHANGED <<req, routeVars, pageVars, clientVars>>

\* generateObject returns result.object, which is returned as it is
AnalyzeReturns ==
    \E object \in AnalysisOutputs :
        /\ req # NULL /\ handler # NULL
        /\ Val(req).endpoint = "analyze-todos"
        /\ Val(handler).pc = "calling"
        /\ handler' = Some(Respond(Val(handler), 200, SuccessBody(object)))
        /\ UNCHANGED <<req, routeVars, pageVars, clientVars>>

\* generateObject throws; the catch block answers
AnalyzeThrows ==
    \E caught \in ThrownValues :
        /\ req # NULL /\ handler # NULL
        /\ Val(req).endpoint = "analyze-todos"
        /\ Val(handler).pc = "calling"
        /\ handler' =
               Some(Respond([Val(handler) EXCEPT !.thrown = Some(caught)],
                            analyzeCatch(caught), ErrorBody("caught")))
        /\ UNCHANGED <<req, routeVars, pageVars, clientVars>>

\* a request has arrived at one of the two routes
HandlerInit ==
    /\ req \in { Some(r) : r \in GenerateRequests \cup AnalyzeRequests }
    /\ handler = Some(HandlerStart)
    /\ rawData = NULL
    /\ currentDate = DateOnly(Val(req).today.date)
    /\ timezoneOffset = 0
    /\ processedData = NULL
    /\ todos = <<>>
    /\ searchQuery = <<>>
    /\ filterStatus = "all"
    /\ filterPriority = "all"
    /\ sortOption = "created_date"
    /\ filteredTodos = <<>>
    /\ now = getTime(Ts(1, 0))
    /\ derivedAt = now
    /\ ClientAtRest

HandlerNext ==
    \/ HandleGenerate
    \/ GenerateReturns
    \/ GenerateThrows
    \/ HandleAnalyze
    \/ AnalyzeReturns
    \/ AnalyzeThrows

HandlerSpec == HandlerInit /\ [][HandlerNext]_vars

-----------------------------------------------------------------------------
(* Properties of the POST handlers *)

\* the generate-todo handler has received a JSON body whose text is a string
IsTextRequest ==
    /\ req # NULL
    /\ Val(req).endpoint = "generate-todo"
    /\ Val(req).body.json
    /\ Val(req).body.text # NULL
    /\ Val(Val(req).body.text).type = "string"

\* the text to validate: the request text after preprocessing
PreprocessedText == preprocessInput(Val(Val(req).body.text).chars)

\* the number of pictographic symbols (U+1F300..U+1F9FF) of a text
Pictographs(s) == Cardinality({ i \in 1..Len(s) : s[i] = "E" })

\* empty, shorter than the minimum, longer than the maximum (in UTF-16 code
\* units), or with more than ten pictographic symbols
IsRejectable(s) ==
    \/ s = <<>>
    \/ length(s) < MIN_TEXT_LENGTH
    \/ length(s) > MAX_TEXT_LENGTH
    \/ Pictographs(s) > 10

\* the handler has answered
Answered == handler # NULL /\ Val(handler).pc = "done"

\* the status of the answer
Status == Val(Val(handler).response).status

ModelThrew(caught) ==
    /\ Answered
    /\ Val(handler).modelCalls = 1
    /\ Val(handler).thrown = Some(caught)

\* C12: on both endpoints, when the call of the model throws an Error whose
\* message contains "rate limit", "429", "quota" or "too many requests", the
\* answer has status 429 (and so is never the generic 500).
C12_RateLimitAnswered429 ==
    \A caught \in ThrownValues :
        (/\ ModelThrew(caught)
         /\ caught.isError
         /\ \/ includes(caught.message, <<"rate", "limit">>)
            \/ includes(caught.message, <<"429">>)
            \/ includes(caught.message, <<"quota">>)
            \/ includes(caught.message, <<"too", "many", "requests">>))
            => Status = 429

\* the model call of the analysis endpoint threw an Error whose message names
\* both the API key and the rate limit
C12_Witness ==
    /\ req # NULL
    /\ Val(req).endpoint = "analyze-todos"
    /\ ModelThrew(ErrorOf(<<"invalid", "API", "key", "rate", "limit">>))
    /\ Status = 429

\* C13: on either endpoint, a request without a valid session never reaches
\* the model.
C13_NoModelCallWithoutSession ==
    (req # NULL /\ Val(req).user = NULL) => Val(handler).modelCalls = 0

\* the canned result of a period without todos
CannedResult(period) ==
    [summary |-> CASE period = "today" -> "no_todos_today"
                   [] period = "week" -> "no_todos_this_week",
     urgentTasks |-> <<>>,
     insights |-> <<"add_a_todo_to_start">>,
     recommendations |-> <<"add_a_new_todo">>]

\* the analysis handler passed its checks and the query found no record
NoRecordMatched ==
    /\ req # NULL
    /\ Val(req).endpoint = "analyze-todos"
    /\ Val(req).apiKey
    /\ Val(req).user # NULL
    /\ Val(req).body.json
    /\ Val(req).body.period \in {Some("today"), Some("week")}
    /\ Val(req).rows.ok
    /\ Val(req).rows.data \in {NULL, Some(<<>>)}

\* C14: when no record matches the requested period, the analysis endpoint
\* answers with success and a canned result that is a function of the period
\* alone (the summary of the period, no urgent task, one insight, one
\* recommendation), and the model is not invoked.
C14_EmptyPeriodCannedResult ==
    NoRecordMatched =>
        /\ Val(handler).modelCalls = 0
        /\ Answered =>
              /\ Status = 200
              /\ Val(Val(handler).response).body =
                     [success |-> TRUE,
                      data |-> CannedResult(Val(Val(req).body.period))]

\* a week without records has been answered
C14_Witness ==
    /\ NoRecordMatched
    /\ Val(req).body.period = Some("week")
    /\ Val(req).rows.data = Some(<<>>)
    /\ Answered
    /\ Status = 200
    /\ Val(Val(handler).response).body.data.summary = "no_todos_this_week"

\* C15: the week window starts on a Monday on or before today and at most six
\* days before it (six days before when today is a Sunday), and ends on the
\* Sunday six days after that Monday, so that today lies inside the window.
C15_WeekWindowHoldsToday ==
    (handler # NULL /\ Val(handler).weekStart # NULL) =>
        LET today == Val(req).today
            weekStart == Val(Val(handler).weekStart)
            weekEnd == Val(Val(handler).weekEnd)
            back == DayNumber(today) - DayNumber(weekStart)
        IN  /\ weekStart.date \in 1..MonthLength(weekStart.month)
            /\ weekEnd.date \in 1..MonthLength(weekEnd.month)
            /\ getDay(weekStart) = 1
            /\ back \in 0..6
            /\ getDay(today) = 0 => back = 6
            /\ DayNumber(weekEnd) = DayNumber(weekStart) + 6
            /\ getDay(weekEnd) = 0
            /\ DayNumber(weekStart) <= DayNumber(today)
            /\ DayNumber(today) <= DayNumber(weekEnd)

\* today is Sunday 4 February: the window runs from Monday 29 January to today
C15_Witness ==
    /\ handler # NULL
    /\ req # NULL
    /\ Val(req).today = LocalDate(2, 4)
    /\ getDay(Val(req).today) = 0
    /\ Val(handler).weekStart = Some(LocalDate(1, 29))
    /\ Val(handler).weekEnd = Some(LocalDate(2, 4))

-----------------------------------------------------------------------------
(* Part 4: the handlers of HomePage and TodoForm, the todos table and the  *)
(* requests in flight                                                      *)

\* handler calls a run can make
MaxCalls == 2

\* calls that can wait for an answer at the same time
MaxInFlight == 2

Users == {"u1", "u2"}
Periods == {"today", "week"}

\* a row of the todos table: a todo with its owner
Row(todo, user_id, updated_at) ==
    [id |-> todo.id, user_id |-> user_id, title |-> todo.title,
     description |-> todo.description, created_date |-> todo.created_date,
     due_date |-> todo.due_date, priority |-> todo.priority,
     completed |-> todo.completed, updated_at |-> updated_at]

\* the table when the page is opened: two rows of u1 and one of u2
InitialRows ==
    {Row(Todo(2, <<"B">>, Some(<<"a">>), Some(Ts(1, 0)), Some("high"), FALSE),
         "u1", Ts(0, 2)),
     Row(Todo(4, <<"a">>, Some(<<"B">>), NULL, Some("low"), TRUE),
         "u1", Ts(0, 4)),
     Row(Todo(8, <<"B">>, Some(<<"A", "b">>), Some(Ts(1, 0)), Some("low"), FALSE),
         "u2", Ts(0, 8))}

\* what the form submits (TodoFormData)
FormInputs ==
    {[title |-> <<"b">>, description |-> Some(<<>>), due_date |-> NULL,
      priority |-> Some("medium"), completed |-> FALSE]}

\* data.description || null
OrNull(x) == IF TruthyString(x) THEN x ELSE NULL

\* the clock as a timestamp: new Date().toISOString()
NowTs == Ts(now \div 24, now % 24)

\* .select("*").eq("user_id", user.id).order("created_date", desc)
selectTodos(rows, userId) ==
    OrderByCreatedDesc({ r \in rows : r.user_id = userId })

\* .insert({ user_id, title, ... }).select().single(): the table hands out
\* the id and the creation date
insertTodo(table, userId, data) ==
    LET inserted ==
            Row(Todo(table.nextId, data.title, OrNull(data.description),
                     data.due_date, data.priority, data.completed),
                userId, NowTs)
    IN  [rows |-> table.rows \cup {inserted}, nextId |-> table.nextId + 1]

Scoped_ByIdOnly(rows, id, userId) == { r \in rows : r.id = id }

\* the rows a mutation reaches: .eq("id", id).eq("user_id", user.id)
Scoped(rows, id, userId) == { r \in rows : r.id = id /\ r.user_id = userId }

\* .update({ title, ..., completed, updated_at }).eq("id").eq("user_id")
updateTodo(table, id, userId, data) ==
    LET hit == Scoped(table.rows, id, userId)
    IN  [table EXCEPT !.rows =
            (@ \ hit) \cup
            { [r EXCEPT !.title = data.title,
                        !.description = OrNull(data.description),
                        !.due_date = data.due_date,
                        !.priority = data.priority,
                        !.completed = data.completed,
                        !.updated_at = NowTs] : r \in hit }]

\* .update({ completed, updated_at }).eq("id").eq("user_id")
toggleTodo(table, id, userId, completed) ==
    LET hit == Scoped(table.rows, id, userId)
    IN  [table EXCEPT !.rows =
            (@ \ hit) \cup
            { [r EXCEPT !.completed = completed, !.updated_at = NowTs] : r \in hit }]

\* .delete().eq("id").eq("user_id")
deleteTodo(table, id, userId) ==
    [table EXCEPT !.rows = @ \ Scoped(table.rows, id, userId)]

\* what the gateway can fail with: the error object of the answer, which
\* fetchTodos throws as it is, or an Error; either can report the expired
\* token of the session or something else
GatewayErrors ==
    {NotAnError(<<"JWT", "expired">>), NotAnError(<<"permission", "denied">>),
     ErrorOf(<<"JWT", "expired">>), ErrorOf(<<"Failed", "to", "fetch">>)}

\* the failures whose cause is the session: its token has expired
SessionErrors == { err \in GatewayErrors : err.message = <<"JWT", "expired">> }

\* err instanceof Error ? err.message : the message of the handler
errorMessage(err, fallback) ==
    IF err.isError THEN err.message ELSE <<fallback>>

\* errorMessage.includes("JWT") || includes("authentication") || ...
IsAuthMessage(message) ==
    IncludesAny(message, {<<"JWT">>, <<"authentication">>, <<"unauthorized">>})

\* a call of a handler that waits for an answer.  stage is the await the
\* call is at: "mutation" (the insert, update or delete), "refresh" (the
\* select of fetchTodos), "continue" (the code after await fetchTodos()),
\* "ai" (the fetch of an AI route).  answer is NULL until the gateway has run
\* the request.
Call(handlerName, stage, userId, id, data, serial) ==
    [handler |-> handlerName, stage |-> stage, userId |-> userId, id |-> id,
     data |-> data, serial |-> serial, answer |-> NULL, mounted |-> TRUE]

\* the answer of the gateway: { data, error }
Answer(data) == [ok |-> TRUE, data |-> data, error |-> NotAnError(<<>>)]
Failure(err) == [ok |-> FALSE, data |-> <<>>, error |-> err]

\* a sequence without its i-th element
RemoveAt(s, i) == SubSeq(s, 1, i - 1) \o SubSeq(s, i + 1, Len(s))

\* the history of a run that has not started
NoHistory ==
    [calls |-> 0, accepted |-> 0, declined |-> 0, deletes |-> 0, selects |-> 0,
     failures |-> 0, logins |-> 0]

\* TodoForm's isLoading prop: HomePage passes none, so it has its default
isLoading == FALSE

\* no call is at the code that follows await fetchTodos(): that code runs as
\* a microtask, before any event and before any answer is handled
Settled == \A i \in 1..Len(inflight) : inflight[i].stage # "continue"

\* the page is rendered and accepts events
Interactive == pathname = "/" /\ ~todosLoading /\ Settled

\* a handler can be called once more
CanCall ==
    /\ Interactive
    /\ user # NULL
    /\ history.calls < MaxCalls
    /\ Len(inflight) < MaxInFlight

\* an analysis button of the period is rendered and enabled
AnalyzeButtonEnabled(period) ==
    \/ /\ analysisData[period] = NULL
       /\ ~analysisLoading[period]
       /\ analysisError[period] = NULL
    \/ analysisError[period] # NULL
    \/ analysisData[period] # NULL /\ ~analysisLoading[period]

\* the AI button of TodoForm is rendered (add mode) and enabled
GenerateButtonEnabled == editingTodo = NULL /\ ~(isGenerating \/ isLoading)

\* the submit button of TodoForm is enabled
SubmitButtonEnabled == ~isLoading

deleteConfirmed_Ignored(answer) == TRUE

\* if (!confirm(...)) return
deleteConfirmed(answer) == answer

\* the page renders the spinner instead of its content, which unmounts
\* TodoForm: the calls of its handlers lose their component
Unmounted(calls) ==
    [i \in 1..Len(calls) |->
        IF calls[i].handler = "handleGenerateWithAI"
        THEN [calls[i] EXCEPT !.mounted = FALSE]
        ELSE calls[i]]

\* the catch block of fetchTodos does not call setTodos
todosOnFailure(list) == list

editingOnFailure_Cleared(editing) == NULL

\* the catch blocks of the mutation handlers do not call setEditingTodo
editingOnFailure(editing) == editing

withPeriod_AllPeriods(prev, period, value) == [p \in DOMAIN prev |-> value]

\* (prev) => ({ ...prev, [period]: value }): the functional update of one
\* field of analysisLoading, analysisData or analysisError
withPeriod(prev, period, value) == [prev EXCEPT ![period] = value]

loadingAfterFailure_Kept(loading) == loading

\* finally { setAnalysisLoading(false) } / setIsGenerating(false) /
\* setTodosLoading(false): the flag after a request that failed
loadingAfterFailure(loading) == FALSE

\* the form is submitted in add mode
HandleAddTodo ==
    \E data \in FormInputs :
        /\ CanCall
        /\ editingTodo = NULL
        /\ SubmitButtonEnabled
        /\ error' = NULL
        /\ inflight' = Append(inflight,
               Call("handleAddTodo", "mutation", Val(user), 0, data,
                    history.calls + 1))
        /\ history' = [history EXCEPT !.calls = @ + 1]
        /\ UNCHANGED <<user, store, todosLoading, editingTodo, analysisLoading,
                       analysisData, analysisError, isGenerating, pathname,
                       pageVars, routeVars, apiVars>>

\* the form is submitted in edit mode
HandleEditTodo ==
    \E data \in FormInputs :
        /\ CanCall
        /\ editingTodo # NULL
        /\ SubmitButtonEnabled
        /\ error' = NULL
        /\ inflight' = Append(inflight,
               Call("handleEditTodo", "mutation", Val(user),
                    Val(editingTodo).id, data, history.calls + 1))
        /\ history' = [history EXCEPT !.calls = @ + 1]
        /\ UNCHANGED <<user, store, todosLoading, editingTodo, analysisLoading,
                       analysisData, analysisError, isGenerating, pathname,
                       pageVars, routeVars, apiVars>>

\* the checkbox of a card is clicked
HandleToggleComplete ==
    \E i \in 1..Len(filteredTodos) :
        /\ CanCall
        /\ error' = NULL
        /\ inflight' = Append(inflight,
               Call("handleToggleComplete", "mutation", Val(user),
                    filteredTodos[i].id,
                    [completed |-> ~filteredTodos[i].completed],
                    history.calls + 1))
        /\ history' = [history EXCEPT !.calls = @ + 1]
        /\ UNCHANGED <<user, store, todosLoading, editingTodo, analysisLoading,
                       analysisData, analysisError, isGenerating, pathname,
                       pageVars, routeVars, apiVars>>

\* the delete button of a card is clicked and the dialog is answered
HandleDeleteTodo ==
    \E i \in 1..Len(filteredTodos), answer \in BOOLEAN :
        /\ CanCall
        /\ IF deleteConfirmed(answer)
           THEN /\ error' = NULL
                /\ inflight' = Append(inflight,
                       Call("handleDeleteTodo", "mutation", Val(user),
                            filteredTodos[i].id, [completed |-> FALSE],
                            history.calls + 1))
                /\ history' = [history EXCEPT
                       !.calls = @ + 1,
                       !.accepted = IF answer THEN @ + 1 ELSE @,
                       !.declined = IF answer THEN @ ELSE @ + 1,
                       !.deletes = @ + 1]
           ELSE /\ history' = [history EXCEPT !.calls = @ + 1, !.declined = @ + 1]
                /\ UNCHANGED <<error, inflight>>
        /\ UNCHANGED <<user, store, todosLoading, editingTodo, analysisLoading,
                       analysisData, analysisError, isGenerating, pathname,
                       pageVars, routeVars, apiVars>>

\* the edit button of a card is clicked
HandleEdit ==
    \E i \in 1..Len(filteredTodos) :
        /\ Interactive
        /\ history.calls < MaxCalls
        /\ editingTodo # Some(filteredTodos[i])
        /\ editingTodo' = Some(filteredTodos[i])
        /\ history' = [history EXCEPT !.calls = @ + 1]
        /\ UNCHANGED <<user, store, inflight, todosLoading, error,
                       analysisLoading, analysisData, analysisError,
                       isGenerating, pathname,
                       pageVars, routeVars, apiVars>>

\* the cancel button of the form is clicked
HandleCancelEdit ==
    /\ Interactive
    /\ history.calls < MaxCalls
    /\ editingTodo # NULL
    /\ editingTodo' = NULL
    /\ history' = [history EXCEPT !.calls = @ + 1]
    /\ UNCHANGED <<user, store, inflight, todosLoading, error,
                   analysisLoading, analysisData, analysisError,
                   isGenerating, pathname,
                   pageVars, routeVars, apiVars>>

\* an analysis button is clicked
HandleAnalyzeTodos ==
    \E period \in Periods :
        /\ CanCall
        /\ AnalyzeButtonEnabled(period)
        /\ analysisLoading' = withPeriod(analysisLoading, period, TRUE)
        /\ analysisError' = withPeriod(analysisError, period, NULL)
        /\ inflight' = Append(inflight,
               Call("handleAnalyzeTodos", "ai", Val(user), 0,
                    [period |-> period], history.calls + 1))
        /\ history' = [history EXCEPT !.calls = @ + 1]
        /\ UNCHANGED <<user, store, todosLoading, error, editingTodo,
                       analysisData, isGenerating, pathname,
                       pageVars, routeVars, apiVars>>

\* the AI button of the form is clicked with a text in the input
HandleGenerateWithAI ==
    /\ CanCall
    /\ GenerateButtonEnabled
    /\ isGenerating' = TRUE
    /\ inflight' = Append(inflight,
           Call("handleGenerateWithAI", "ai", Val(user), 0,
                [completed |-> FALSE], history.calls + 1))
    /\ history' = [history EXCEPT !.calls = @ + 1]
    /\ UNCHANGED <<user, store, todosLoading, error, editingTodo,
                   analysisLoading, analysisData, analysisError, pathname,
                   pageVars, routeVars, apiVars>>

\* useAuth reports another user; the effect on [user, fetchTodos] calls
\* fetchTodos
AuthChanges ==
    \E u \in Users :
        /\ pathname = "/"
        /\ Settled
        /\ history.calls < MaxCalls
        /\ Len(inflight) < MaxInFlight
        /\ user # Some(u)
        /\ user' = Some(u)
        /\ todosLoading' = TRUE
        /\ error' = NULL
        /\ isGenerating' = FALSE
        /\ inflight' = Append(Unmounted(inflight),
               Call("fetchTodos", "refresh", u, 0, [completed |-> FALSE],
                    history.calls + 1))
        /\ history' = [history EXCEPT !.calls = @ + 1, !.selects = @ + 1,
                                     !.logins = @ + 1]
        /\ UNCHANGED <<store, editingTodo, analysisLoading, analysisData,
                       analysisError, pathname, pageVars, routeVars, apiVars>>

\* the message a handler shows when what it caught is no Error
Fallback(handlerName) ==
    CASE handlerName = "handleAddTodo" -> "create_failed"
      [] handlerName = "handleEditTodo" -> "update_failed"
      [] handlerName = "handleToggleComplete" -> "toggle_failed"
      [] handlerName = "handleDeleteTodo" -> "delete_failed"
      [] OTHER -> "load_failed"

\* the table after the mutation of a call
Mutated(table, call) ==
    CASE call.handler = "handleAddTodo" ->
             insertTodo(table, call.userId, call.data)
      [] call.handler = "handleEditTodo" ->
             updateTodo(table, call.id, call.userId, call.data)
      [] call.handler = "handleToggleComplete" ->
             toggleTodo(table, call.id, call.userId, call.data.completed)
      [] call.handler = "handleDeleteTodo" ->
             deleteTodo(table, call.id, call.userId)

\* the gateway runs the request of a call: a mutation changes the table, a
\* select reads it
GatewayRuns ==
    \E i \in 1..Len(inflight) :
        /\ Settled
        /\ inflight[i].stage \in {"mutation", "refresh"}
        /\ inflight[i].answer = NULL
        /\ IF inflight[i].stage = "mutation"
           THEN /\ store' = Mutated(store, inflight[i])
                /\ inflight' = [inflight EXCEPT ![i].answer = Some(Answer(<<>>))]
           ELSE /\ store' = store
                /\ inflight' = [inflight EXCEPT ![i].answer =
                       Some(Answer(selectTodos(store.rows, inflight[i].userId)))]
        /\ UNCHANGED <<user, todosLoading, error, editingTodo, analysisLoading,
                       analysisData, analysisError, isGenerating, pathname,
                       history, pageVars, routeVars, apiVars>>

\* the request of a call fails and changes nothing in the table
GatewayFails ==
    \E i \in 1..Len(inflight), err \in GatewayErrors :
        /\ Settled
        /\ inflight[i].stage \in {"mutation", "refresh"}
        /\ inflight[i].answer = NULL
        /\ inflight' = [inflight EXCEPT ![i].answer = Some(Failure(err))]
        /\ history' = [history EXCEPT !.failures = @ + 1]
        /\ UNCHANGED <<user, store, todosLoading, error, editingTodo,
                       analysisLoading, analysisData, analysisError,
                       isGenerating, pathname,
                       pageVars, routeVars, apiVars>>

afterFailure_Resent(calls, i) == [calls EXCEPT ![i].answer = NULL]

\* the calls in flight after the catch block of the i-th: the block shows
\* the message and the call ends; it sends nothing
afterFailure(calls, i) == RemoveAt(calls, i)

\* the mutation of a handler was answered with an error: its catch block
MutationFailed ==
    \E i \in 1..Len(inflight) :
        /\ Settled
        /\ inflight[i].stage = "mutation"
        /\ inflight[i].answer # NULL
        /\ ~Val(inflight[i].answer).ok
        /\ error' = Some(errorMessage(Val(inflight[i].answer).error,
                                      Fallback(inflight[i].handler)))
        /\ editingTodo' = editingOnFailure(editingTodo)
        /\ inflight' = afterFailure(inflight, i)
        /\ UNCHANGED <<user, store, todosLoading, analysisLoading, analysisData,
                       analysisError, isGenerating, pathname, history,
                       pageVars, routeVars, apiVars>>

\* the mutation of a handler was answered without error: await fetchTodos()
\* starts the refresh, and the page shows the spinner
MutationSucceeded ==
    \E i \in 1..Len(inflight) :
        /\ Settled
        /\ inflight[i].stage = "mutation"
        /\ inflight[i].answer # NULL
        /\ Val(inflight[i].answer).ok
        /\ todosLoading' = TRUE
        /\ error' = NULL
        /\ isGenerating' = FALSE
        /\ inflight' = [Unmounted(inflight) EXCEPT ![i].stage = "refresh",
                                                   ![i].answer = NULL]
        /\ history' = [history EXCEPT !.selects = @ + 1]
        /\ UNCHANGED <<user, store, editingTodo, analysisLoading, analysisData,
                       analysisError, pathname, pageVars, routeVars, apiVars>>

\* the calls after fetchTodos returned in the i-th: handleAddTodo and
\* handleEditTodo go on with setEditingTodo(null), the others are done
AfterRefresh(calls, i) ==
    IF calls[i].handler \in {"handleAddTodo", "handleEditTodo"}
    THEN [calls EXCEPT ![i].stage = "continue", ![i].answer = NULL]
    ELSE RemoveAt(calls, i)

\* fetchTodos got the rows: setTodos(data || []), and the memo runs again
RefreshSucceeded ==
    \E i \in 1..Len(inflight) :
        /\ Settled
        /\ inflight[i].stage = "refresh"
        /\ inflight[i].answer # NULL
        /\ Val(inflight[i].answer).ok
        /\ todos' = Val(inflight[i].answer).data
        /\ filteredTodos' =
               filteredTodosMemo(todos', searchQuery, filterStatus,
                                 filterPriority, sortOption, now).items
        /\ derivedAt' = now
        /\ todosLoading' = FALSE
        /\ inflight' = AfterRefresh(inflight, i)
        /\ UNCHANGED <<user, store, error, editingTodo, analysisLoading,
                       analysisData, analysisError, isGenerating, pathname,
                       history, searchQuery, filterStatus, filterPriority,
                       sortOption, now, routeVars, apiVars>>

\* fetchTodos got an error: its catch block and its finally block
RefreshFailed ==
    \E i \in 1..Len(inflight) :
        /\ Settled
        /\ inflight[i].stage = "refresh"
        /\ inflight[i].answer # NULL
        /\ ~Val(inflight[i].answer).ok
        /\ LET message == errorMessage(Val(inflight[i].answer).error,
                                       Fallback("fetchTodos"))
           IN  /\ error' = Some(message)
               /\ pathname' = IF IsAuthMessage(message) THEN "/login" ELSE pathname
        /\ todos' = todosOnFailure(todos)
        /\ filteredTodos' =
               IF todos' = todos
               THEN filteredTodos
               ELSE filteredTodosMemo(todos', searchQuery, filterStatus,
                                      filterPriority, sortOption, now).items
        /\ derivedAt' = IF todos' = todos THEN derivedAt ELSE now
        /\ todosLoading' = FALSE
        /\ inflight' = AfterRefresh(inflight, i)
        /\ UNCHANGED <<user, store, editingTodo, analysisLoading, analysisData,
                       analysisError, isGenerating, history, searchQuery,
                       filterStatus, filterPriority, sortOption, now,
                       routeVars, apiVars>>

\* the code after await fetchTodos(): setEditingTodo(null)
Continues ==
    \E i \in 1..Len(inflight) :
        /\ inflight[i].stage = "continue"
        /\ editingTodo' = NULL
        /\ inflight' = RemoveAt(inflight, i)
        /\ UNCHANGED <<user, store, todosLoading, error, analysisLoading,
                       analysisData, analysisError, isGenerating, pathname,
                       history, pageVars, routeVars, apiVars>>

\* /api/analyze-todos answered with a result
AnalysisSucceeds ==
    \E i \in 1..Len(inflight) :
        /\ Settled
        /\ inflight[i].handler = "handleAnalyzeTodos"
        /\ LET period == inflight[i].data.period
           IN  /\ analysisData' = withPeriod(analysisData, period,
                      Some([request |-> inflight[i].serial]))
               /\ analysisLoading' = withPeriod(analysisLoading, period, FALSE)
        /\ inflight' = RemoveAt(inflight, i)
        /\ UNCHANGED <<user, store, todosLoading, error, editingTodo,
                       analysisError, isGenerating, pathname, history,
                       pageVars, routeVars, apiVars>>

\* /api/analyze-todos answered with an error, or the fetch threw
AnalysisFails ==
    \E i \in 1..Len(inflight) :
        /\ Settled
        /\ inflight[i].handler = "handleAnalyzeTodos"
        /\ LET period == inflight[i].data.period
           IN  /\ analysisError' = withPeriod(analysisError, period,
                      Some(<<"analysis_failed">>))
               /\ analysisLoading' = withPeriod(analysisLoading, period,
                      loadingAfterFailure(analysisLoading[period]))
        /\ inflight' = afterFailure(inflight, i)
        /\ UNCHANGED <<user, store, todosLoading, error, editingTodo,
                       analysisData, isGenerating, pathname, history,
                       pageVars, routeVars, apiVars>>

\* /api/generate-todo answered, with a result or with an error: the finally
\* block of handleGenerateWithAI; it sets the state of the form it was
\* called in, which has no effect once that form is unmounted
GenerationSettles ==
    \E i \in 1..Len(inflight) :
        /\ Settled
        /\ inflight[i].handler = "handleGenerateWithAI"
        /\ isGenerating' = IF inflight[i].mounted THEN FALSE ELSE isGenerating
        /\ inflight' = RemoveAt(inflight, i)
        /\ UNCHANGED <<user, store, todosLoading, error, editingTodo,
                       analysisLoading, analysisData, analysisError, pathname,
                       history, pageVars, routeVars, apiVars>>

\* the page of u1 after the first fetchTodos stored the rows
ClientInit ==
    /\ user = Some("u1")
    /\ store = [rows |-> InitialRows, nextId |-> 11]
    /\ inflight = <<>>
    /\ todosLoading = FALSE
    /\ error = NULL
    /\ editingTodo = NULL
    /\ analysisLoading = [p \in Periods |-> FALSE]
    /\ analysisData = [p \in Periods |-> NULL]
    /\ analysisError = [p \in Periods |-> NULL]
    /\ isGenerating = FALSE
    /\ pathname = "/"
    /\ history = NoHistory
    /\ todos = selectTodos(store.rows, "u1")
    /\ searchQuery = <<>>
    /\ filterStatus = "all"
    /\ filterPriority = "all"
    /\ sortOption = "created_date"
    /\ now = getTime(Ts(1, 0))
    /\ derivedAt = now
    /\ filteredTodos =
           filteredTodosMemo(todos, searchQuery, filterStatus, filterPriority,
                             sortOption, now).items
    /\ rawData = NULL
    /\ currentDate = NULL
    /\ timezoneOffset = 0
    /\ processedData = NULL
    /\ req = NULL
    /\ handler = NULL

ClientNext ==
    \/ HandleAddTodo
    \/ HandleEditTodo
    \/ HandleToggleComplete
    \/ HandleDeleteTodo
    \/ HandleEdit
    \/ HandleCancelEdit
    \/ HandleAnalyzeTodos
    \/ HandleGenerateWithAI
    \/ AuthChanges
    \/ GatewayRuns
    \/ GatewayFails
    \/ MutationFailed
    \/ MutationSucceeded
    \/ RefreshSucceeded
    \/ RefreshFailed
    \/ Continues
    \/ AnalysisSucceeds
    \/ AnalysisFails
    \/ GenerationSettles

ClientSpec == ClientInit /\ [][ClientNext]_vars

-----------------------------------------------------------------------------
(* Properties of the handlers of the page *)

\* the i-th call in flight is an update, a toggle or a delete
IsScopedMutation(i) ==
    /\ inflight[i].stage = "mutation"
    /\ inflight[i].handler \in
           {"handleEditTodo", "handleToggleComplete", "handleDeleteTodo"}

\* the record the i-th call in flight names is owned by somebody else
TargetsForeignRow(i) ==
    \E r \in store.rows : r.id = inflight[i].id /\ r.user_id # inflight[i].userId

\* the gateway runs the request of the i-th call in this step
RunsRequestOf(i) ==
    /\ i \in 1..Len(inflight)
    /\ Len(inflight') = Len(inflight)
    /\ inflight[i].answer = NULL
    /\ inflight'[i].answer # NULL
    /\ Val(inflight'[i].answer).ok

C17_DeclinedDeleteDoesNothing ==
    [][/\ history'.deletes > history.deletes =>
              history'.accepted > history.accepted
       /\ history'.declined > history.declined =>
              /\ history'.deletes = history.deletes
              /\ history'.selects = history.selects
              /\ inflight' = inflight
              /\ todos' = todos
              /\ filteredTodos' = filteredTodos
              /\ error' = error
              /\ todosLoading' = todosLoading
              /\ store' = store]_vars

\* a confirmation was declined while the page showed an error
C17_Witness ==
    /\ history.declined = 1
    /\ history.deletes = 0
    /\ error # NULL
    /\ inflight = <<>>

\* the failed answer of the i-th call in flight is handled in this step
FailureHandled(i) ==
    /\ inflight[i].answer # NULL
    /\ ~Val(inflight[i].answer).ok
    /\ \A j \in 1..Len(inflight') :
          ~(/\ inflight'[j].serial = inflight[i].serial
            /\ inflight'[j].answer = inflight[i].answer)

\* the successful select of some call in flight is handled in this step
ListArrived ==
    \E i \in 1..Len(inflight) :
        /\ inflight[i].stage = "refresh"
        /\ inflight[i].answer # NULL
        /\ Val(inflight[i].answer).ok
        /\ todos' = Val(inflight[i].answer).data

C19_NoSecondSubmission ==
    ~\E i, j \in 1..Len(inflight) :
        /\ i < j
        /\ inflight[i].handler # "fetchTodos"
        /\ inflight[i].handler = inflight[j].handler
        /\ inflight[i].id = inflight[j].id
        /\ inflight[i].data = inflight[j].data

\* the i-th call in flight ends in this step
Completes(i) ==
    \A j \in 1..Len(inflight') : inflight'[j].serial # inflight[i].serial

\* the select of the i-th call in flight is handled in this step
RefreshHandled(i) ==
    /\ inflight[i].stage = "refresh"
    /\ inflight[i].answer # NULL
    /\ \A j \in 1..Len(inflight') :
          ~(/\ inflight'[j].serial = inflight[i].serial
            /\ inflight'[j].stage = "refresh")

\* C20: the step in which an analysis request of a period, an extraction
\* request or a list refresh completes, with success or with failure, leaves
\* the flag of that request (analysisLoading of the period, isGenerating of
\* the form that sent it, todosLoading) false.
C20_FlagsClearedOnCompletion ==
    [][\A i \in 1..Len(inflight) :
          /\ (inflight[i].handler = "handleAnalyzeTodos" /\ Completes(i)) =>
                 ~analysisLoading'[inflight[i].data.period]
          /\ (/\ inflight[i].handler = "handleGenerateWithAI"
              /\ inflight[i].mounted
              /\ Completes(i)) => ~isGenerating'
          /\ RefreshHandled(i) => ~todosLoading']_vars

\* an analysis has failed and a list refresh has failed, and no flag is set
C20_Witness ==
    /\ analysisError["week"] # NULL
    /\ error = Some(<<"load_failed">>)
    /\ inflight = <<>>
    /\ ~analysisLoading["week"]
    /\ ~todosLoading
    /\ ~isGenerating

-----------------------------------------------------------------------------
(* Properties of the page: analyses, redirects, retries, refreshes *)

\* an analysis of the period starts in this step
AnalysisStarts(period) ==
    /\ Len(inflight') = Len(inflight) + 1
    /\ inflight'[Len(inflight')].handler = "handleAnalyzeTodos"
    /\ inflight'[Len(inflight')].data.period = period

\* an analysis of the period completes or fails in this step
AnalysisEnds(period) ==
    \E i \in 1..Len(inflight) :
        /\ inflight[i].handler = "handleAnalyzeTodos"
        /\ inflight[i].data.period = period
        /\ Completes(i)

\* C21: the step that starts, completes or fails an analysis of one period
\* leaves the in-flight flag, the error and the result of the other period as
\* they were, whatever else is in flight.
C21_PeriodsIndependent ==
    [][\A period \in Periods, other \in Periods :
          (/\ other # period
           /\ AnalysisStarts(period) \/ AnalysisEnds(period)) =>
              /\ analysisLoading'[other] = analysisLoading[other]
              /\ analysisError'[other] = analysisError[other]
              /\ analysisData'[other] = analysisData[other]]_vars

\* the two analyses were in flight together: the one of today has failed
\* while the one of the week still waits
C21_Witness ==
    /\ analysisError["today"] # NULL
    /\ ~analysisLoading["today"]
    /\ analysisLoading["week"]
    /\ analysisError["week"] = NULL
    /\ \E i \in 1..Len(inflight) :
          /\ inflight[i].handler = "handleAnalyzeTodos"
          /\ inflight[i].data.period = "week"

\* the failed select of the i-th call in flight is handled in this step
ListFailureHandled(i) ==
    /\ inflight[i].stage = "refresh"
    /\ FailureHandled(i)

\* C22: the step that handles a failed list request sets the error string,
\* and it redirects to the login page exactly when the failure was caused by
\* an expired or invalid session.
C22_OnlySessionFailureRedirects ==
    [][\A i \in 1..Len(inflight) :
          ListFailureHandled(i) =>
              /\ error' # NULL
              /\ pathname' = IF Val(inflight[i].answer).error \in SessionErrors
                             THEN "/login"
                             ELSE pathname]_vars

\* the call of this serial waits for the answer of a store mutation or of an
\* AI route
RequestPending(calls, serial) ==
    \E j \in 1..Len(calls) :
        /\ calls[j].serial = serial
        /\ calls[j].stage \in {"mutation", "ai"}
        /\ calls[j].answer = NULL

-----------------------------------------------------------------------------
(* Properties of the statistics of the analysis handler *)

\* the analysis handler has computed its statistics
HasStatistics ==
    /\ req # NULL /\ handler # NULL
    /\ Val(req).endpoint = "analyze-todos"
    /\ Val(handler).stats # NULL

\* the rows the first query returned: the records of the period
PeriodRows == Val(Val(req).rows.data)

\* the due date lies from 0 to 1 days after the start of today, inclusive
DueWithinOneDay(t, today) ==
    /\ t.due_date # NULL
    /\ getTime(Val(t.due_date)) - midnight(today) >= 0
    /\ getTime(Val(t.due_date)) - midnight(today) <= 24

\* C24: the urgent set holds exactly the titles of the records of the period
\* that are not completed and that have priority high or a due date from 0 to
\* 1 days after today, inclusive.
C24_UrgentSetExact ==
    HasStatistics =>
        LET urgent == Val(Val(handler).stats).urgentTasks
        IN  { urgent[i] : i \in 1..Len(urgent) } =
                { PeriodRows[i].title : i \in
                    { k \in 1..Len(PeriodRows) :
                        /\ ~PeriodRows[k].completed
                        /\ \/ PeriodRows[k].priority = Some("high")
                           \/ DueWithinOneDay(PeriodRows[k], Val(req).today) } }

\* C30: the statistics partition the records of the period: the totals of the
\* four priority classes add up to the total count, the counts of the five
\* time-of-day buckets add up to the total count, and every completed count
\* is at most its total.
C30_StatisticsPartition ==
    HasStatistics =>
        LET stats == Val(Val(handler).stats)
            byPriority == stats.priorityStats
            slots == stats.timeSlots
        IN  /\ stats.totalCount = Len(PeriodRows)
            /\ stats.totalCount > 0
            /\ byPriority.high.total + byPriority.medium.total
                   + byPriority.low.total + byPriority.none.total
                   = stats.totalCount
            /\ slots["morning"] + slots["afternoon"] + slots["evening"]
                   + slots["night"] + slots["none"] = stats.totalCount
            /\ byPriority.high.completed <= byPriority.high.total
            /\ byPriority.medium.completed <= byPriority.medium.total
            /\ byPriority.low.completed <= byPriority.low.total
            /\ byPriority.none.completed <= byPriority.none.total
            /\ stats.completedCount <= stats.totalCount

\* two records, one due at midnight and one without due date or priority,
\* were counted
C30_Witness ==
    /\ HasStatistics
    /\ Val(Val(handler).stats).totalCount = 2
    /\ Val(Val(handler).stats).timeSlots["night"] = 1
    /\ Val(Val(handler).stats).timeSlots["none"] = 1
    /\ Val(Val(handler).stats).priorityStats.none.total = 1
    /\ Val(Val(handler).stats).priorityStats.medium.total = 1

\* the analysis handler holds a request
IsAnalyzeRequest ==
    /\ req # NULL /\ handler # NULL
    /\ Val(req).endpoint = "analyze-todos"

\* the body of the request is not JSON, or its period is none of the two
MalformedOrBadPeriod ==
    \/ ~Val(req).body.json
    \/ Val(req).body.isNull
    \/ Val(req).body.period \notin {Some("today"), Some("week")}

\* C25: the analysis endpoint answers 500 to any request when the model
\* credential is missing, else 401 to any request without a session (also
\* one with a malformed body or an invalid period), else 400 to a body that
\* is not JSON, else 400 to a period that is none of the two; it issues a
\* todo query or a model call only when the credential, the session, the
\* JSON body and the period have all passed.
C25_ChecksInFixedOrder ==
    IsAnalyzeRequest =>
        LET r == Val(req)
            h == Val(handler)
        IN  /\ (Answered /\ ~r.apiKey) => Status = 500
            /\ (Answered /\ r.apiKey /\ r.user = NULL) => Status = 401
            /\ (Answered /\ r.apiKey /\ r.user # NULL /\ ~r.body.json) =>
                   Status = 400
            /\ (/\ Answered /\ r.apiKey /\ r.user # NULL
                /\ r.body.json /\ ~r.body.isNull
                /\ r.body.period \notin {Some("today"), Some("week")}) =>
                   Status = 400
            /\ (h.todoQueries > 0 \/ h.modelCalls > 0) =>
                   /\ r.apiKey
                   /\ r.user # NULL
                   /\ ~MalformedOrBadPeriod

\* a request without session whose body is not JSON was answered 401, and
\* nothing was queried
C25_Witness ==
    /\ IsAnalyzeRequest
    /\ Val(req).apiKey
    /\ Val(req).user = NULL
    /\ ~Val(req).body.json
    /\ Answered
    /\ Status = 401
    /\ Val(handler).todoQueries = 0
    /\ Val(handler).modelCalls = 0

\* the thrown value is an Error whose message holds a keyword of the class
InClass(caught, keywords) ==
    caught.isError /\ IncludesAny(caught.message, keywords)

\* C26: whatever a handler of the two endpoints catches, the answer has one
\* of the five statuses: 429 when the value is an Error with a rate-limit
\* keyword; else 401 with an authentication keyword; else 404 with a
\* model-not-found keyword; else 400 with an invalid-request keyword; and 500
\* when the value is no Error or its message holds no keyword.
C26_ClassificationPrecedence ==
    (req # NULL /\ handler # NULL /\ Answered /\ Val(handler).thrown # NULL) =>
        LET caught == Val(Val(handler).thrown)
            rateLimit == InClass(caught, RateLimitKeywords)
            auth == InClass(caught, AuthKeywords)
            model == InClass(caught, ModelKeywords)
            badRequest == InClass(caught, BadRequestKeywords)
        IN  /\ Status \in {429, 401, 404, 400, 500}
            /\ rateLimit => Status = 429
            /\ (~rateLimit /\ auth) => Status = 401
            /\ (~rateLimit /\ ~auth /\ model) => Status = 404
            /\ (~rateLimit /\ ~auth /\ ~model /\ badRequest) => Status = 400
            /\ (~rateLimit /\ ~auth /\ ~model /\ ~badRequest) => Status = 500
            /\ ~caught.isError => Status = 500

\* the model call of the extraction endpoint threw an Error that names the
\* API key and "not found": the answer is 401, not 404
C26_Witness ==
    /\ req # NULL
    /\ Val(req).endpoint = "generate-todo"
    /\ ModelThrew(ErrorOf(<<"API", "key", "not", "found">>))
    /\ Status = 401

\* C27: once every mutation and every list refresh of the session of a user
\* has completed, none of them with an error, the list the page holds is the
\* list of the owner's rows in the table.
C27_ListMatchesStoreAtRest ==
    (/\ user # NULL
     /\ history.logins = 0
     /\ inflight = <<>>
     /\ history.failures = 0) =>
        todos = selectTodos(store.rows, Val(user))

\* C28: in the session of a user, after any sequence of edit-start, cancel,
\* create, update, toggle, delete and refresh operations, editingTodo is null
\* or holds a record whose id is the id of a record of the current list.
C28_EditingTodoInList ==
    (history.logins = 0 /\ editingTodo # NULL) =>
        \E i \in 1..Len(todos) : todos[i].id = Val(editingTodo).id

-----------------------------------------------------------------------------
(* Properties of the status badge of a card *)

\* C29: for every record of the list and the current instant, getTodoStatus
\* returns done, overdue or in-progress exactly when the record satisfies the
\* done, overdue or in-progress predicate of the status filter; and every
\* card of a list derived under a status filter has, at the instant of the
\* derivation, the status of that filter.
C29_BadgeAgreesWithFilter ==
    /\ \A todo \in Range(todos) :
          \A status \in {"done", "overdue", "in_progress"} :
              (getTodoStatus(todo, now) = status)
                  <=> MatchesStatus(todo, status, now)
    /\ filterStatus # "all" =>
          \A i \in 1..Len(filteredTodos) :
              getTodoStatus(filteredTodos[i], derivedAt) = filterStatus

\* the in-progress filter lists an open record that is due exactly now, and
\* the list holds a completed record that has a due date
C29_Witness ==
    /\ filterStatus = "in_progress"
    /\ derivedAt = now
    /\ \E i \in 1..Len(filteredTodos) :
          /\ filteredTodos[i].due_date # NULL
          /\ getTime(Val(filteredTodos[i].due_date)) = now
    /\ \E todo \in Range(todos) : todo.completed /\ todo.due_date # NULL

====
